---------------------------- MODULE Spec2Model ----------------------------
(***************************************************************************)
(* Capture-and-delivery pipeline of the OpenIPC recorder                   *)
(* (custom_components/recorder.py, class OpenIPCRecorder).                 *)
(*                                                                         *)
(*   record_video            snapshot assembler: capture loop, transcoder, *)
(*                           temporary directory                           *)
(*   send_to_telegram        delivery engine: ordered fallback mechanisms  *)
(*   send_to_telegram_direct primary mechanism: retries, timeouts, backoff *)
(*   record_rtsp_stream      stream recorder: path probing, copy, retries  *)
(*   diagnose_rtsp           probe sweep over the catalog of stream paths  *)
(* and the recording orchestrator of the coordinator                       *)
(* (custom_components/__init__.py, class OpenIPCDataUpdateCoordinator):    *)
(*   async_start_recording, async_stop_recording,                          *)
(*   async_start_timed_recording, async_get_recording_status.              *)
(*                                                                         *)
(* Each coroutine is a small state machine; its suspension points (awaits) *)
(* separate the actions.  What the outside world answers (a capture, the   *)
(* transcoder's exit code, an upload's response) is drawn with \E.         *)
(***************************************************************************)
EXTENDS Integers, Sequences, FiniteSets, TLC

VARIABLES
    \* ---- record_video --------------------------------------------------
    rv_pc,              \* "idle" | "capture" | "sleep" | "assemble" | "done" | "cancelled"
    duration,           \* argument duration
    snapshot_interval,  \* argument snapshot_interval
    frames,             \* local frames (requested number of captures)
    i,                  \* loop index of `for i in range(frames)`
    successful_frames,  \* local successful_frames
    temp_dir_exists,    \* the job's temp_<timestamp> directory exists on disk
    temp_files,         \* indices n of the files frame_<n>.jpg in the directory
    captures,           \* log: indices handed to _capture_snapshot, in order
    ffmpeg_runs,        \* log: exit codes of the transcoder processes spawned
    rv_result,          \* the dict record_video returned
    add_osd,            \* argument add_osd
    osd_template,       \* osd_config: "none" (no osd_config) | "ok" | "bad"
    osd_lines,          \* local osd_lines; <<>> for None
    telemetry,          \* what _get_osd_values would read now (data, clock)
    overlays,           \* log: the overlays drawn, with the telemetry of that time
    \* ---- send_to_telegram ----------------------------------------------
    st_pc,              \* "idle" | "direct" | "video" | "file" | "notify" | "done"
    file_exists,        \* filepath.exists()
    file_size,          \* os.path.getsize(filepath), bytes
    chat_id,            \* argument chat_id
    bot_token,          \* hass.data[DOMAIN]["config"]["telegram_bot_token"]
    default_chat_id,    \* hass.data[DOMAIN]["config"]["telegram_chat_id"]
    target_chat_id,     \* local target_chat_id = chat_id or default_chat_id
    has_send_video,     \* has_service("telegram_bot", "send_video")
    has_send_file,      \* has_service("telegram_bot", "send_file")
    has_notify,         \* has_service("notify", "telegram_notify")
    st_result,          \* "none" | "true" | "false"
    \* ---- send_to_telegram_direct ---------------------------------------
    d_pc,               \* "idle" | "loop" | "done"
    max_retries,        \* argument max_retries
    attempt,            \* loop variable of `for attempt in range(max_retries)`
    timeouts,           \* log: current_timeout of every attempt, in order
    waits,              \* log: every asyncio.sleep(wait_time) of the retry loop
    d_result,           \* "none" | "true" | "false" | "raised"
    \* ---- the transports ------------------------------------------------
    calls,              \* log: <<mechanism, outcome>> of every upload / service call
    \* ---- record_rtsp_stream --------------------------------------------
    rs_pc,              \* "idle" | "probe" | "copy_tcp" | "copy_udp" | "done"
    stream_profile,     \* argument stream_profile: "main" | "sub"
    with_audio,         \* argument with_audio of the running invocation
    stream_path,        \* local stream_path
    rtsp_url,           \* local rtsp_url, named by its path
    alt,                \* position in rtsp_paths of the loop over alternates; 0: primary
    probes,             \* log: <<path, ok>> of the probes of the running invocation
    copies,             \* log: the copy processes spawned for the request
    depth,              \* nesting of record_rtsp_stream inside itself
    rs_result,          \* the dict record_rtsp_stream returned
    \* ---- diagnose_rtsp -------------------------------------------------
    dg_pc,              \* "idle" | "sweep" | "done"
    dg_idx,             \* position in the catalog of the path probed next
    dg_probed,          \* log: the paths probed, in order
    results,            \* the dict results: one record per key (path)
    \* ---- the coordinator's recording state -----------------------------
    device,             \* "openipc" | "beward" | "vivotek" (is_beward, is_vivotek)
    now,                \* hass.loop.time()
    _recording_task,    \* handle of the scheduled-stop task, NoTask for None
    _ha_recording_task, \* handle of the artifact task, NoTask for None
    _recording_end_time,\* NoTime for None
    tasks,              \* the coroutines started so far, by id
    cam_recording,      \* the camera is recording to its SD card
    cam_rec_by,         \* id of the call whose start request began that recording
    cam_stop,           \* the last stop request that reached the camera: who sent
                        \* it and whose recording it stopped; and, when the
                        \* camera had already been stopped, who had stopped it
                        \* and whose recording that was
    \* ---- record_and_send_to_telegram ----------------------------------
    ras_pc,             \* "idle" | "recording" | "sending" | "returned" | "done"
                        \* | "cancelled"
    ras_method,         \* argument method
    ras_result,         \* the dict returned: success, telegram_sent
    ras_notification,   \* the persistent notification the coordinator created
    \* ---- the snapshot jobs of one camera and their directories ---------
    tj_jobs,            \* the record_video runs started so far, by id
    tj_clock,           \* datetime.now(), to the second
    tj_dirs,            \* the temp_<timestamp> directories on disk
    tj_handle,          \* _ha_recording_task, as far as it tracks these jobs
    \* ---- _capture_snapshot ---------------------------------------------
    cs_pc,              \* "idle" | "urls" | "coordinators" | "done"
    cs_idx,             \* position in snapshot_urls / in the coordinators
    cs_hosts,           \* hosts of the coordinators in hass.data[DOMAIN], in order
    cs_tried,           \* log: <<"url" | "coordinator", index or host, accepted>>
    cs_stored,          \* what was written to snapshot_path
    cs_last_error,      \* last_error: where the last exception came from
    cs_result,          \* "none" | "true" | "raised"
    \* ---- _get_osd_values -----------------------------------------------
    ov_pc,              \* "idle" | "loop" | "done"
    ov_registry,        \* hass.data[DOMAIN], in the order of the dict
    ov_idx,             \* position of the loop in it
    ov_values,          \* the dict returned: whose name, whose telemetry
    \* ---- _add_text_to_image --------------------------------------------
    ft_pc,              \* "idle" | "by_name" | "by_rank" | "first" | "load"
                        \* | "done"
    ft_name,            \* osd_config.get('font', 'default')
    ft_files,           \* font_files: the sorted names in the fonts folder
    ft_font,            \* font_path, "None" while unset
    ft_rule,            \* the rule that set font_path
    ft_outcome          \* "none" | "drawn" | "skipped" | "raised"

rv_vars == <<rv_pc, duration, snapshot_interval, frames, i, successful_frames,
             temp_dir_exists, temp_files, captures, ffmpeg_runs, rv_result,
             add_osd, osd_template, osd_lines, telemetry, overlays>>
osd_vars == <<add_osd, osd_template, osd_lines, telemetry, overlays>>
st_vars == <<st_pc, file_exists, file_size, chat_id, bot_token, default_chat_id,
             target_chat_id,
             has_send_video, has_send_file, has_notify, st_result>>
d_vars  == <<d_pc, max_retries, attempt, timeouts, waits, d_result>>
rs_vars == <<rs_pc, stream_profile, with_audio, stream_path, rtsp_url, alt,
             probes, copies, depth, rs_result>>
dg_vars == <<dg_pc, dg_idx, dg_probed, results>>
oc_vars == <<device, now, _recording_task, _ha_recording_task,
             _recording_end_time, tasks, cam_recording, cam_rec_by, cam_stop>>
ras_vars == <<ras_pc, ras_method, ras_result, ras_notification>>
tj_vars == <<tj_jobs, tj_clock, tj_dirs, tj_handle>>
cs_vars == <<cs_pc, cs_idx, cs_hosts, cs_tried, cs_stored, cs_last_error,
             cs_result>>
ov_vars == <<ov_pc, ov_registry, ov_idx, ov_values>>
ft_vars == <<ft_pc, ft_name, ft_files, ft_font, ft_rule, ft_outcome>>
overlay_vars == <<ov_vars, ft_vars>>
ext_vars == <<ras_vars, tj_vars, cs_vars, overlay_vars>>
base_vars == <<rv_vars, st_vars, d_vars, calls, rs_vars, dg_vars, oc_vars>>
vars    == <<base_vars, ext_vars>>

-----------------------------------------------------------------------------
(* Bounds of the model *)
MaxDuration == 6
MaxInterval == 4
MaxRetriesArg == 5
MaxSizeSteps == 6
MaxOddProbes == 2
MaxTasks == 4
MaxActive == 2
MaxHaTasks == 2
MaxTime == 3
MaxRecDuration == 2
MaxTelemetry == 1

Max(a, b) == IF a >= b THEN a ELSE b
Min(a, b) == IF a <= b THEN a ELSE b

None == "None"
\* Python truthiness of an optional string.
Truthy(x) == x \notin {None, ""}

-----------------------------------------------------------------------------
(***************************************************************************)
(* record_video                                                            *)
(***************************************************************************)

\* the key "size" is only there in a success; 0 stands for its absence
NoResult == [success |-> FALSE, error |-> "pending", frames |-> 0, size |-> 0]

\* what the transcoder left at the output path when it exited 0
OutputFiles == {"missing", "empty", "written"}
\* file_size = getsize(path) if path.exists() else 0; 1 is any positive size
ArtifactSize(output) == IF output = "written" THEN 1 ELSE 0

\* template.format(**osd_values): the text of the overlay, one line that
\* shows the values read; a template with a placeholder that is not among
\* the values raises, and the handler sets osd_lines = ["OSD TEST"]
OsdLinesNoFallback(template, values) ==
    IF template = "bad" THEN <<>> ELSE <<values>>
OsdLines(template, values) ==
    IF template = "bad" THEN <<"OSD TEST">> ELSE <<values>>

\* frames = duration // snapshot_interval; if frames < 1: frames = 1
FrameCountNoClamp(d, n) == d \div n
FrameCount(d, n) == IF d \div n < 1 THEN 1 ELSE d \div n

\* "frames": successful_frames  in the success result
ReportedFramesRequested(succeeded, requested) == requested
ReportedFrames(succeeded, requested) == succeeded

\* if successful_frames == 0:
NoFramesCapturedNever(n) == n < 0
NoFramesCaptured(n) == n = 0

\* first_frame = temp_dir / "frame_0000.jpg"; first_frame.exists()
FirstFrameExists(files) == 0 \in files

\* _cleanup_temp_files_async: remove every file, then the directory.
CleanupKeepsDir ==
    /\ temp_files' = {}
    /\ temp_dir_exists' = temp_dir_exists
_cleanup_temp_files_async ==
    /\ temp_files' = {}
    /\ temp_dir_exists' = FALSE

\* the `except Exception as err:` handler of record_video
RecordFailsRaises(err) ==
    /\ _cleanup_temp_files_async
    /\ rv_result' = rv_result
    /\ rv_pc' = "raised"
RecordFails(err) ==
    /\ _cleanup_temp_files_async
    /\ rv_result' = [success |-> FALSE, error |-> err, frames |-> 0, size |-> 0]
    /\ rv_pc' = "done"

\* record_video up to the first capture: temp_dir.mkdir, frames
RecordStart ==
    /\ rv_pc = "idle"
    /\ \E d \in 1..MaxDuration, n \in 1..MaxInterval :
        /\ duration' = d
        /\ snapshot_interval' = n
        /\ frames' = FrameCount(d, n)
    /\ temp_dir_exists' = TRUE
    /\ temp_files' = {}
    /\ i' = 0
    /\ successful_frames' = 0
    /\ rv_pc' = IF frames' > 0 THEN "capture" ELSE "assemble"
    /\ \E osd \in BOOLEAN, template \in {"none", "ok", "bad"} :
        /\ add_osd' = osd
        /\ osd_template' = template
        /\ osd_lines' = IF osd /\ template # "none"
                           THEN OsdLines(template, telemetry)
                           ELSE <<>>
    /\ overlays' = <<>>
    /\ UNCHANGED <<captures, ffmpeg_runs, rv_result, telemetry>>
    /\ UNCHANGED <<st_vars, d_vars, calls, rs_vars, dg_vars, oc_vars, ext_vars>>

\* the statement after the try/except of one loop iteration
AfterCapture ==
    rv_pc' = IF i < frames - 1 THEN "sleep" ELSE "assemble"

\* one iteration: _capture_snapshot(frame_<i>.jpg) stored the frame; with
\* add_osd and osd_lines, _add_text_to_image draws the lines on it unless
\* PIL or a font is missing (it logs its own errors and returns)
CaptureOk ==
    /\ rv_pc = "capture"
    /\ captures' = Append(captures, i)
    /\ temp_files' = temp_files \cup {i}
    /\ successful_frames' = successful_frames + 1
    /\ \E drawn \in (IF add_osd /\ osd_lines # <<>> THEN BOOLEAN ELSE {FALSE}) :
        overlays' = IF drawn
                       THEN Append(overlays, [i |-> i, lines |-> osd_lines,
                                              at |-> telemetry])
                       ELSE overlays
    /\ AfterCapture
    /\ UNCHANGED <<duration, snapshot_interval, frames, i, temp_dir_exists,
                   ffmpeg_runs, rv_result>>
    /\ UNCHANGED <<add_osd, osd_template, osd_lines, telemetry>>
    /\ UNCHANGED <<st_vars, d_vars, calls, rs_vars, dg_vars, oc_vars, ext_vars>>

\* one iteration: _capture_snapshot raised; the handler logs and goes on
CaptureFail ==
    /\ rv_pc = "capture"
    /\ captures' = Append(captures, i)
    /\ AfterCapture
    /\ UNCHANGED <<duration, snapshot_interval, frames, i, successful_frames,
                   temp_dir_exists, temp_files, ffmpeg_runs, rv_result>>
    /\ UNCHANGED <<osd_vars, st_vars, d_vars, calls, rs_vars, dg_vars,
                   oc_vars, ext_vars>>

\* await asyncio.sleep(snapshot_interval), then the next iteration
Sleep ==
    /\ rv_pc = "sleep"
    /\ i' = i + 1
    /\ rv_pc' = "capture"
    /\ UNCHANGED <<duration, snapshot_interval, frames, successful_frames,
                   temp_dir_exists, temp_files, captures, ffmpeg_runs, rv_result>>
    /\ UNCHANGED <<osd_vars, st_vars, d_vars, calls, rs_vars, dg_vars,
                   oc_vars, ext_vars>>

\* if successful_frames == 0: raise Exception("No frames captured successfully")
NoFrames ==
    /\ rv_pc = "assemble"
    /\ NoFramesCaptured(successful_frames)
    /\ RecordFails("No frames captured successfully")
    /\ UNCHANGED <<duration, snapshot_interval, frames, i, successful_frames,
                   captures, ffmpeg_runs>>
    /\ UNCHANGED <<osd_vars, st_vars, d_vars, calls, rs_vars, dg_vars,
                   oc_vars, ext_vars>>

\* _create_video_from_frames: shutil.which("ffmpeg") finds nothing
FfmpegMissing ==
    /\ rv_pc = "assemble"
    /\ ~NoFramesCaptured(successful_frames)
    /\ RecordFails("ffmpeg not found")
    /\ UNCHANGED <<duration, snapshot_interval, frames, i, successful_frames,
                   captures, ffmpeg_runs>>
    /\ UNCHANGED <<osd_vars, st_vars, d_vars, calls, rs_vars, dg_vars,
                   oc_vars, ext_vars>>

\* _create_video_from_frames: frame_0000.jpg is not there
NoFirstFrame ==
    /\ rv_pc = "assemble"
    /\ ~NoFramesCaptured(successful_frames)
    /\ ~FirstFrameExists(temp_files)
    /\ RecordFails("No frames available")
    /\ UNCHANGED <<duration, snapshot_interval, frames, i, successful_frames,
                   captures, ffmpeg_runs>>
    /\ UNCHANGED <<osd_vars, st_vars, d_vars, calls, rs_vars, dg_vars,
                   oc_vars, ext_vars>>

\* _create_video_from_frames: the transcoder runs and exits nonzero
FfmpegFailsRetries ==
    /\ rv_pc = "assemble"
    /\ ~NoFramesCaptured(successful_frames)
    /\ FirstFrameExists(temp_files)
    /\ Len(ffmpeg_runs) < 2
    /\ ffmpeg_runs' = Append(ffmpeg_runs, 1)
    /\ UNCHANGED <<rv_pc, duration, snapshot_interval, frames, i,
                   successful_frames, temp_dir_exists, temp_files, captures,
                   rv_result>>
    /\ UNCHANGED <<osd_vars, st_vars, d_vars, calls, rs_vars, dg_vars,
                   oc_vars, ext_vars>>
FfmpegFails ==
    /\ rv_pc = "assemble"
    /\ ~NoFramesCaptured(successful_frames)
    /\ FirstFrameExists(temp_files)
    /\ ffmpeg_runs' = Append(ffmpeg_runs, 1)
    /\ RecordFails("FFmpeg failed")
    /\ UNCHANGED <<duration, snapshot_interval, frames, i, successful_frames,
                   captures>>
    /\ UNCHANGED <<osd_vars, st_vars, d_vars, calls, rs_vars, dg_vars,
                   oc_vars, ext_vars>>

\* _create_video_from_frames: the transcoder exits 0; cleanup; result
FfmpegOk ==
    /\ rv_pc = "assemble"
    /\ ~NoFramesCaptured(successful_frames)
    /\ FirstFrameExists(temp_files)
    /\ ffmpeg_runs' = Append(ffmpeg_runs, 0)
    /\ _cleanup_temp_files_async
    /\ \E output \in OutputFiles :
        rv_result' = [success |-> TRUE, error |-> "",
                      frames |-> ReportedFrames(successful_frames, frames),
                      size |-> ArtifactSize(output)]
    /\ rv_pc' = "done"
    /\ UNCHANGED <<duration, snapshot_interval, frames, i, successful_frames,
                   captures>>
    /\ UNCHANGED <<osd_vars, st_vars, d_vars, calls, rs_vars, dg_vars,
                   oc_vars, ext_vars>>

\* the camera's telemetry and the clock move on while the job runs
TelemetryChanges ==
    /\ rv_pc \in {"capture", "sleep"}
    /\ add_osd
    /\ telemetry < MaxTelemetry
    /\ telemetry' = telemetry + 1
    /\ UNCHANGED <<rv_pc, duration, snapshot_interval, frames, i,
                   successful_frames, temp_dir_exists, temp_files, captures,
                   ffmpeg_runs, rv_result, add_osd, osd_template, osd_lines,
                   overlays>>
    /\ UNCHANGED <<st_vars, d_vars, calls, rs_vars, dg_vars, oc_vars, ext_vars>>

\* task.cancel() reaching the coroutine at an await: CancelledError is no
\* Exception, so neither handler nor cleanup runs.
Cancel ==
    /\ rv_pc \in {"capture", "sleep", "assemble"}
    /\ rv_pc' = "cancelled"
    /\ UNCHANGED <<duration, snapshot_interval, frames, i, successful_frames,
                   temp_dir_exists, temp_files, captures, ffmpeg_runs, rv_result>>
    /\ UNCHANGED <<osd_vars, st_vars, d_vars, calls, rs_vars, dg_vars,
                   oc_vars, ext_vars>>

-----------------------------------------------------------------------------
(***************************************************************************)
(* send_to_telegram_direct and send_to_telegram                            *)
(***************************************************************************)

\* file_size / 1024 / 1024: one megabyte in bytes
MB == 1048576
\* if file_size_mb > 50: the destination's ceiling, in megabytes
CeilingMB == 50
\* success = await self.send_to_telegram_direct(..., max_retries=3)
DeliverMaxRetries == 3
\* granularity of the artifact sizes tried (10 MB)
SizeStep == 10 * MB

FileSizes ==
    {k * SizeStep : k \in 0..MaxSizeSteps} \cup {CeilingMB * MB, CeilingMB * MB + 1}

\* what one upload to the Bot API can answer: ok, a refusal, "file is too
\* big", asyncio.TimeoutError, any other exception
UploadOutcomes == {"ok", "error", "too_big", "timeout", "exception"}
\* what one blocking service call under wait_for can do
ServiceOutcomes == {"ok", "timeout", "error"}

\* if file_size_mb > 50  (division by a power of two is exact in floats)
TooLargeInclusive(size) == size >= CeilingMB * MB
TooLarge(size) == size > CeilingMB * MB

\* timeout_seconds = max(120, min(600, int(file_size_mb * 30)))
TimeoutSeconds(size) ==
    Max(120, Min(600, 30 * (size \div MB) + (30 * (size % MB)) \div MB))

\* current_timeout = timeout_seconds * (attempt + 1)
CurrentTimeoutShrinking(ts, a) == ts \div (a + 1)
CurrentTimeout(ts, a) == ts * (a + 1)

\* wait_time = 10 * (attempt + 1)
WaitTimeConstant(a) == 10
WaitTime(a) == 10 * (a + 1)

\* for attempt in range(max_retries): is there another iteration
MoreAttempts(a, mr) == a < mr

\* if "file is too big" in error_desc.lower(): return False
FileTooBigRetried(outcome) == FALSE
FileTooBig(outcome) == outcome = "too_big"

\* target_chat_id = chat_id or default_chat_id
TargetChatId(c, dflt) == IF Truthy(c) THEN c ELSE dflt

\* if bot_token and target_chat_id:
DirectUsableInverted(tok, target) == Truthy(tok) /\ ~Truthy(target)
DirectUsable(tok, target) == Truthy(tok) /\ Truthy(target)

\* The mechanism send_to_telegram turns to after mechanism `from` did not
\* succeed: the `if has_...:` chain below it; "done" when none is left.
NextMechanismSkipsFile(from, hv, hf, hn) ==
    IF from = "direct" /\ hv THEN "video"
    ELSE IF hn THEN "notify"
    ELSE "done"
NextMechanism(from, hv, hf, hn) ==
    IF from = "direct" /\ hv THEN "video"
    ELSE IF from \in {"direct", "video"} /\ hf THEN "file"
    ELSE IF from \in {"direct", "video", "file"} /\ hn THEN "notify"
    ELSE "done"

\* send_to_telegram moves on from mechanism `from`; return False at the end
FallThroughEndsDelivery(from) ==
    /\ st_pc' = "done"
    /\ st_result' = "false"
FallThrough(from) ==
    LET next == NextMechanism(from, has_send_video, has_send_file, has_notify)
    IN  /\ st_pc' = next
        /\ st_result' = IF next = "done" THEN "false" ELSE st_result

\* send_to_telegram_direct up to its retry loop (lines 771-786)
DirectEnter(size, mr) ==
    /\ max_retries' = mr
    /\ attempt' = 0
    /\ timeouts' = <<>>
    /\ waits' = <<>>
    /\ IF TooLarge(size)
          THEN d_pc' = "done" /\ d_result' = "false"
          ELSE d_pc' = "loop" /\ d_result' = "none"

\* send_to_telegram_direct called on its own (test_telegram_file_send, or
\* any caller using the default max_retries)
DirectStart ==
    /\ st_pc = "idle"
    /\ d_pc = "idle"
    /\ \E ex \in BOOLEAN, size \in FileSizes, mr \in 0..MaxRetriesArg :
        /\ file_exists' = ex
        /\ file_size' = size
        /\ IF ex
              THEN DirectEnter(size, mr)
              ELSE \* os.path.getsize raises outside any try
                   /\ d_pc' = "done"
                   /\ d_result' = "raised"
                   /\ max_retries' = mr
                   /\ UNCHANGED <<attempt, timeouts, waits>>
    /\ UNCHANGED <<st_pc, chat_id, bot_token, default_chat_id, target_chat_id,
                   has_send_video, has_send_file, has_notify, st_result>>
    /\ UNCHANGED <<rv_vars, rs_vars, dg_vars, oc_vars, calls, ext_vars>>

\* one iteration of the retry loop: the upload and what follows it
UploadAttempt ==
    /\ d_pc = "loop"
    /\ MoreAttempts(attempt, max_retries)
    /\ \E outcome \in UploadOutcomes :
        /\ timeouts' = Append(timeouts,
                              CurrentTimeout(TimeoutSeconds(file_size), attempt))
        /\ calls' = Append(calls, <<"direct", outcome>>)
        /\ IF outcome = "ok"
              THEN /\ d_result' = "true"
                   /\ d_pc' = "done"
                   /\ UNCHANGED <<attempt, waits>>
              ELSE IF FileTooBig(outcome)
              THEN /\ d_result' = "false"
                   /\ d_pc' = "done"
                   /\ UNCHANGED <<attempt, waits>>
              ELSE /\ waits' = IF attempt < max_retries - 1
                                  THEN Append(waits, WaitTime(attempt))
                                  ELSE waits
                   /\ attempt' = attempt + 1
                   /\ UNCHANGED <<d_pc, d_result>>
    /\ UNCHANGED max_retries
    /\ UNCHANGED <<rv_vars, rs_vars, dg_vars, oc_vars, st_vars, ext_vars>>

\* the loop ran out: "All %d attempts failed", return False
DirectExhausted ==
    /\ d_pc = "loop"
    /\ ~MoreAttempts(attempt, max_retries)
    /\ d_result' = "false"
    /\ d_pc' = "done"
    /\ UNCHANGED <<max_retries, attempt, timeouts, waits>>
    /\ UNCHANGED <<rv_vars, rs_vars, dg_vars, oc_vars, st_vars, calls,
                   ext_vars>>

\* send_to_telegram up to its first mechanism (lines 916-957).  bot_token,
\* default_chat_id and has_* are what the host holds during the call
\* (hass.data[DOMAIN]["config"], hass.services); the code reads them only
\* once it is past its early returns, target_chat_id is its local.
SendStart ==
    /\ st_pc = "idle"
    /\ d_pc = "idle"
    /\ \E ex \in BOOLEAN, size \in FileSizes,
          c \in {None, "", "chat"}, tok \in {None, "token"},
          dflt \in {None, "default"}, hv \in BOOLEAN, hf \in BOOLEAN,
          hn \in BOOLEAN :
        /\ file_exists' = ex
        /\ file_size' = size
        /\ chat_id' = c
        /\ bot_token' = tok
        /\ default_chat_id' = dflt
        /\ has_send_video' = hv
        /\ has_send_file' = hf
        /\ has_notify' = hn
        /\ IF ~ex \/ TooLarge(size)
              THEN \* "File not found" / "File too large": return False
                   /\ st_pc' = "done"
                   /\ st_result' = "false"
                   /\ UNCHANGED target_chat_id
                   /\ UNCHANGED d_vars
              ELSE /\ target_chat_id' = TargetChatId(c, dflt)
                   /\ IF ~Truthy(target_chat_id')
                         THEN \* "No chat_id provided": return False
                              /\ st_pc' = "done"
                              /\ st_result' = "false"
                              /\ UNCHANGED d_vars
                         ELSE IF DirectUsable(tok, target_chat_id')
                         THEN /\ st_pc' = "direct"
                              /\ st_result' = st_result
                              /\ DirectEnter(size, DeliverMaxRetries)
                         ELSE /\ LET next == NextMechanism("direct", hv, hf, hn)
                                 IN  /\ st_pc' = next
                                     /\ st_result' = IF next = "done" THEN "false"
                                                     ELSE st_result
                              /\ UNCHANGED d_vars
    /\ UNCHANGED <<rv_vars, rs_vars, dg_vars, oc_vars, calls, ext_vars>>

\* `if success:` after Method 1
DirectSucceededNever(r) == FALSE
DirectSucceeded(r) == r = "true"

\* Method 1 returned: `if success: return True`, else on to Method 2
DirectReturn ==
    /\ st_pc = "direct"
    /\ d_pc = "done"
    /\ IF DirectSucceeded(d_result)
          THEN st_pc' = "done" /\ st_result' = "true"
          ELSE FallThrough("direct")
    /\ UNCHANGED <<file_exists, file_size, chat_id, bot_token, default_chat_id,
                   target_chat_id, has_send_video, has_send_file, has_notify>>
    /\ UNCHANGED <<rv_vars, rs_vars, dg_vars, oc_vars, d_vars, calls, ext_vars>>

\* One fallback mechanism: a single blocking service call; success returns
\* True, an error or a timeout falls through.
ServiceCall(mech) ==
    /\ st_pc = mech
    /\ \E outcome \in ServiceOutcomes :
        /\ calls' = Append(calls, <<mech, outcome>>)
        /\ IF outcome = "ok"
              THEN st_pc' = "done" /\ st_result' = "true"
              ELSE FallThrough(mech)
    /\ UNCHANGED <<file_exists, file_size, chat_id, bot_token, default_chat_id,
                   target_chat_id, has_send_video, has_send_file, has_notify>>
    /\ UNCHANGED <<rv_vars, rs_vars, dg_vars, oc_vars, d_vars, ext_vars>>

\* Method 2: send_to_telegram_via_service -> telegram_bot.send_video
SendVideo == ServiceCall("video")
\* Method 3: telegram_bot.send_file
SendFile == ServiceCall("file")
\* Method 4: notify.telegram_notify
Notify == ServiceCall("notify")

-----------------------------------------------------------------------------
(***************************************************************************)
(* record_rtsp_stream                                                      *)
(***************************************************************************)

\* rtsp_paths of record_rtsp_stream: the alternates, in the order tried
rtsp_paths ==
    << "/stream=0", "/av0_0", "/live", "/h264", "/video", "/ch0",
       "/cam/realmonitor?channel=1&subtype=0" >>

\* stream_path = "/stream=0" if stream_profile == "main" else "/stream=1"
PrimaryPath(profile) == IF profile = "main" THEN "/stream=0" ELSE "/stream=1"

\* What a copy process can end with: exit 0; stderr naming an unsupported
\* codec; stderr naming a refused or timed-out connection; any other
\* nonzero exit; create_subprocess_exec / communicate raising.  The codec
\* message is written once the input is open, the connection messages when
\* it cannot be opened, so one stderr does not carry both.
CopyOutcomes == {"ok", "codec", "conn", "other", "exception"}

NoStreamResult ==
    [success |-> FALSE, error |-> "pending", method |-> "absent",
     audio |-> "absent", rtsp_url |-> "absent", size |-> 0]

StreamFailure(err) ==
    [success |-> FALSE, error |-> err, method |-> "absent",
     audio |-> "absent", rtsp_url |-> "absent", size |-> 0]

\* for alt_path in rtsp_paths: if alt_path == stream_path: continue
\* the position of the next alternate at or after `from`, Len + 1 if none
NextAlt(from, sp) ==
    LET rest == {j \in from..Len(rtsp_paths) : rtsp_paths[j] # sp}
    IN  IF rest = {} THEN Len(rtsp_paths) + 1
        ELSE CHOOSE j \in rest : \A k \in rest : j <= k

\* alt_url = f"rtsp://...:554{alt_path}"
AltUrlPrimary(alt_path) == PrimaryPath(stream_profile)
AltUrl(alt_path) == alt_path

\* the `else:` of the for loop: return "No working RTSP URL found"
NoWorkingUrlFallsThrough ==
    /\ rs_pc' = "copy_tcp"
    /\ rs_result' = rs_result
NoWorkingUrl ==
    /\ rs_pc' = "done"
    /\ rs_result' = StreamFailure("No working RTSP URL found")

\* if with_audio and "codec not currently supported" in error_msg
AudioRetryAnyCopy(audio, outcome) == outcome = "codec"
AudioRetry(audio, outcome) == audio /\ outcome = "codec"

\* if "Connection refused" in error_msg or "Connection timed out" in error_msg
UdpRetryNever(outcome) == FALSE
UdpRetry(outcome) == outcome = "conn"

\* record_rtsp_stream up to its first probe; also the body entered again by
\* `return await self.record_rtsp_stream(duration, stream_profile, False)`
StreamEnter(profile, audio) ==
    /\ stream_profile' = profile
    /\ with_audio' = audio
    /\ stream_path' = PrimaryPath(profile)
    /\ rtsp_url' = PrimaryPath(profile)
    /\ alt' = 0
    /\ probes' = <<>>
    /\ rs_pc' = "probe"

StreamStart ==
    /\ rs_pc = "idle"
    /\ \E profile \in {"main", "sub"}, audio \in BOOLEAN :
        StreamEnter(profile, audio)
    /\ UNCHANGED <<copies, depth, rs_result>>
    /\ UNCHANGED <<rv_vars, st_vars, d_vars, calls, dg_vars, oc_vars, ext_vars>>

\* if not await self._check_rtsp_available(rtsp_url): the primary URL
ProbePrimary ==
    /\ rs_pc = "probe"
    /\ alt = 0
    /\ \E ok \in BOOLEAN :
        /\ probes' = Append(probes, <<rtsp_url, ok>>)
        /\ IF ok
              THEN /\ rs_pc' = "copy_tcp"
                   /\ UNCHANGED <<alt, rs_result>>
              ELSE /\ alt' = NextAlt(1, stream_path)
                   /\ IF alt' > Len(rtsp_paths)
                         THEN NoWorkingUrl
                         ELSE UNCHANGED <<rs_pc, rs_result>>
    /\ UNCHANGED <<stream_profile, with_audio, stream_path, rtsp_url, copies, depth>>
    /\ UNCHANGED <<rv_vars, st_vars, d_vars, calls, dg_vars, oc_vars, ext_vars>>

\* one iteration of the loop over the alternates
ProbeAlt ==
    /\ rs_pc = "probe"
    /\ alt >= 1
    /\ \E ok \in BOOLEAN :
        /\ probes' = Append(probes, <<AltUrl(rtsp_paths[alt]), ok>>)
        /\ IF ok
              THEN /\ rtsp_url' = AltUrl(rtsp_paths[alt])
                   /\ stream_path' = rtsp_paths[alt]
                   /\ rs_pc' = "copy_tcp"
                   /\ UNCHANGED <<alt, rs_result>>
              ELSE /\ alt' = NextAlt(alt + 1, stream_path)
                   /\ UNCHANGED <<rtsp_url, stream_path>>
                   /\ IF alt' > Len(rtsp_paths)
                         THEN NoWorkingUrl
                         ELSE UNCHANGED <<rs_pc, rs_result>>
    /\ UNCHANGED <<stream_profile, with_audio, copies, depth>>
    /\ UNCHANGED <<rv_vars, st_vars, d_vars, calls, dg_vars, oc_vars, ext_vars>>

\* the copy over TCP (lines 659-720, 753-763) and what its end leads to
CopyTcp ==
    /\ rs_pc = "copy_tcp"
    /\ \E outcome \in CopyOutcomes :
        /\ copies' = Append(copies, [transport |-> "tcp", audio |-> with_audio,
                                     url |-> rtsp_url, outcome |-> outcome])
        /\ IF outcome = "ok"
              THEN /\ \E output \in OutputFiles :
                        rs_result' =
                          [success |-> TRUE, error |-> "", method |-> "rtsp",
                           audio |-> IF with_audio THEN "true" ELSE "false",
                           rtsp_url |-> rtsp_url,
                           size |-> ArtifactSize(output)]
                   /\ rs_pc' = "done"
                   /\ UNCHANGED <<stream_profile, with_audio, stream_path,
                                  rtsp_url, alt, probes, depth>>
              ELSE IF outcome = "exception"
              THEN /\ rs_result' = StreamFailure("exception")
                   /\ rs_pc' = "done"
                   /\ UNCHANGED <<stream_profile, with_audio, stream_path,
                                  rtsp_url, alt, probes, depth>>
              ELSE IF AudioRetry(with_audio, outcome)
              THEN /\ StreamEnter(stream_profile, FALSE)
                   /\ depth' = depth + 1
                   /\ UNCHANGED rs_result
              ELSE IF UdpRetry(outcome)
              THEN /\ rs_pc' = "copy_udp"
                   /\ UNCHANGED <<stream_profile, with_audio, stream_path,
                                  rtsp_url, alt, probes, depth, rs_result>>
              ELSE /\ rs_result' = StreamFailure(outcome)
                   /\ rs_pc' = "done"
                   /\ UNCHANGED <<stream_profile, with_audio, stream_path,
                                  rtsp_url, alt, probes, depth>>
    /\ UNCHANGED <<rv_vars, st_vars, d_vars, calls, dg_vars, oc_vars, ext_vars>>

\* the copy over UDP, always without audio (lines 721-756)
CopyUdp ==
    /\ rs_pc = "copy_udp"
    /\ \E outcome \in {"ok", "other", "exception"} :
        /\ copies' = Append(copies, [transport |-> "udp", audio |-> FALSE,
                                     url |-> rtsp_url, outcome |-> outcome])
        /\ \E output \in OutputFiles :
            rs_result' =
              IF outcome = "ok"
                 THEN [success |-> TRUE, error |-> "", method |-> "rtsp_udp",
                       audio |-> "absent", rtsp_url |-> "absent",
                       size |-> ArtifactSize(output)]
              ELSE IF outcome = "exception" THEN StreamFailure("exception")
              ELSE StreamFailure("conn")
    /\ rs_pc' = "done"
    /\ UNCHANGED <<stream_profile, with_audio, stream_path, rtsp_url, alt,
                   probes, depth>>
    /\ UNCHANGED <<rv_vars, st_vars, d_vars, calls, dg_vars, oc_vars, ext_vars>>

-----------------------------------------------------------------------------
(***************************************************************************)
(* diagnose_rtsp                                                           *)
(***************************************************************************)

\* rtsp_paths of diagnose_rtsp: the catalog swept
diagnose_paths ==
    << "/stream=0", "/stream=1", "/av0_0", "/av0_1", "/live", "/live0",
       "/live1", "/h264", "/h265", "/video", "/video0", "/video1", "/ch0",
       "/ch1", "/cam/realmonitor?channel=1&subtype=0",
       "/cam/realmonitor?channel=1&subtype=1", "/media/video1",
       "/media/video2", "/mjpeg/1", "/mjpeg/2", "/bytestream", "/" >>

\* results[path] = {...}: a dict keeps one value per key
SetResult(res, path, success, error) ==
    {r \in res : r.path # path}
        \cup {[path |-> path, success |-> success, error |-> error]}

\* the number of probes so far that did not simply exit nonzero
OddProbes(res) == Cardinality({r \in res : r.error # "stderr"})

\* the `except Exception as err:` of one iteration: record it and go on
ProbeRaisedAborts(path) ==
    /\ results' = results
    /\ dg_idx' = dg_idx
    /\ dg_pc' = "done"
ProbeRaised(path) ==
    /\ results' = SetResult(results, path, FALSE, "exception")
    /\ dg_idx' = dg_idx + 1
    /\ dg_pc' = IF dg_idx + 1 > Len(diagnose_paths) THEN "done" ELSE "sweep"

DiagnoseStart ==
    /\ dg_pc = "idle"
    /\ dg_pc' = "sweep"
    /\ dg_idx' = 1
    /\ dg_probed' = <<>>
    /\ results' = {}
    /\ UNCHANGED <<rv_vars, st_vars, d_vars, calls, rs_vars, oc_vars, ext_vars>>

\* one iteration: the probe process ran to its end, exit 0 or not
DiagnoseProbe ==
    /\ dg_pc = "sweep"
    /\ LET path == diagnose_paths[dg_idx] IN
       \E success \in BOOLEAN :
        /\ success => OddProbes(results) < MaxOddProbes
        /\ dg_probed' = Append(dg_probed, path)
        /\ results' = SetResult(results, path, success,
                                IF success THEN "None" ELSE "stderr")
        /\ dg_idx' = dg_idx + 1
        /\ dg_pc' = IF dg_idx + 1 > Len(diagnose_paths) THEN "done" ELSE "sweep"
    /\ UNCHANGED <<rv_vars, st_vars, d_vars, calls, rs_vars, oc_vars, ext_vars>>

\* one iteration: spawning or awaiting the probe process raised
DiagnoseProbeRaises ==
    /\ dg_pc = "sweep"
    /\ OddProbes(results) < MaxOddProbes
    /\ dg_probed' = Append(dg_probed, diagnose_paths[dg_idx])
    /\ ProbeRaised(diagnose_paths[dg_idx])
    /\ UNCHANGED <<rv_vars, st_vars, d_vars, calls, rs_vars, oc_vars, ext_vars>>

-----------------------------------------------------------------------------
(***************************************************************************)
(* The recording orchestrator (OpenIPCDataUpdateCoordinator)               *)
(***************************************************************************)

\* self._recording_task = None / self._ha_recording_task = None
NoTask == 0
\* self._recording_end_time = None
NoTime == 0

InitOrchestrator ==
    /\ device = "openipc"
    /\ now = 1
    /\ _recording_task = NoTask
    /\ _ha_recording_task = NoTask
    /\ _recording_end_time = NoTime
    /\ tasks = <<>>
    /\ cam_recording = FALSE
    /\ cam_rec_by = NoTask
    /\ cam_stop = [by |-> NoTask, began_by |-> NoTask, rec |-> NoTask,
                   after |-> NoTask]

\* async_setup_entry: coordinator.is_beward / coordinator.is_vivotek
SetupDevice ==
    /\ tasks = <<>>
    /\ device = "openipc"
    /\ device' \in {"beward", "vivotek"}
    /\ UNCHANGED <<now, _recording_task, _ha_recording_task,
                   _recording_end_time, tasks, cam_recording, cam_rec_by,
                   cam_stop>>
    /\ UNCHANGED <<rv_vars, st_vars, d_vars, calls, rs_vars, dg_vars, ext_vars>>

\* if self.is_beward: return False / if self.is_vivotek: return False
SdSupported == device \notin {"beward", "vivotek"}

\* the three endpoints tried in turn by start and by stop
start_endpoints ==
    <<"/cgi-bin/record.cgi?action=start", "/cgi-bin/record.cgi?action=start",
      "/api/v1/record?action=start">>
stop_endpoints ==
    <<"/cgi-bin/record.cgi?action=stop", "/cgi-bin/record.cgi?action=stop",
      "/api/v1/record?action=stop">>

\* A coroutine: a service call, the scheduled stop (stop_after_delay) or the
\* artifact task (async_record_to_ha_media).
\*   kind   "stop" | "start" | "timed" | "timer" | "ha"
\*   pc     "stop_send" | "sleep1" | "manual_send" | "start_send" | "sleep"
\*          | "running" | "done" | "cancelled"
\*   ep     position in the list of endpoints
\*   cancel id of the coroutine whose task.cancel() is pending on this one
\*   origin for the scheduled stop: the timed start that created it
\*   sent   a stop request of this coroutine has gone out to the camera
Task(kind, pc) ==
    [kind |-> kind, pc |-> pc, ep |-> 0, dur |-> 0, wake |-> 0,
     cancel |-> NoTask, origin |-> NoTask, method |-> "none", ret |-> "none",
     sent |-> FALSE]

\* not task.done()
InFlight(ts, t) == t # NoTask /\ ts[t].pc \notin {"done", "cancelled"}

\* a coroutine that has returned: its locals are gone
Finished(task, ret) ==
    [task EXCEPT !.pc = "done", !.ret = ret, !.ep = 0, !.dur = 0, !.wake = 0,
                 !.cancel = NoTask, !.method = "none"]
\* a task ended by the CancelledError that `by` asked for
Cancelled(task, by) ==
    [Finished(task, "none") EXCEPT !.pc = "cancelled", !.cancel = by]

\* task.cancel() called by coroutine `by`: a task in asyncio.sleep gets the
\* CancelledError there (stop_after_delay catches it and ends); any other
\* task gets it at its next suspension; a finished task is left alone.
RequestCancelNever(ts, t, by) == ts
RequestCancel(ts, t, by) ==
    IF ~InFlight(ts, t) THEN ts
    ELSE IF ts[t].pc = "sleep"
            THEN [ts EXCEPT ![t] = Cancelled(@, by)]
            ELSE [ts EXCEPT ![t].cancel = by]

\* async_stop_recording up to its first request (lines 2026-2031), run by
\* coroutine `self`: the handle of the scheduled stop is cancelled and
\* dropped, an artifact task in flight is cancelled.
StopEntryKeepsTimer(ts, self) ==
    [handle |-> _recording_task,
     tasks  |-> IF InFlight(ts, _ha_recording_task)
                   THEN RequestCancel(ts, _ha_recording_task, self)
                   ELSE ts]
StopEntry(ts, self) ==
    LET a == IF _recording_task # NoTask
                THEN RequestCancel(ts, _recording_task, self)
                ELSE ts
    IN  [handle |-> NoTask,
         tasks  |-> IF InFlight(a, _ha_recording_task)
                       THEN RequestCancel(a, _ha_recording_task, self)
                       ELSE a]

\* async_send_command run by a coroutine: "ok" is a 200, "fail" any other
\* answer or error.  With a cancellation pending the CancelledError is raised
\* in session.get and swallowed by the bare except: the call returns False,
\* and the request may ("cancelled_sent") or may not have gone out.
SendOutcomes(task) ==
    IF task.cancel # NoTask THEN {"cancelled", "cancelled_sent"}
                            ELSE {"ok", "fail"}
Returned(outcome) == outcome = "ok"
Issued(outcome) == outcome # "cancelled"
\* async_send_command returned False and the loop goes to its next endpoint:
\* the bare except has swallowed the CancelledError, if there was one, and
\* the coroutine goes on uncancelled
NextEndpointCancelled(task) ==
    IF task.cancel # NoTask THEN Cancelled(task, task.cancel)
                            ELSE [task EXCEPT !.ep = @ + 1]
NextEndpoint(task) == [task EXCEPT !.ep = @ + 1, !.cancel = NoTask]
Reached(outcome) == outcome \in {"ok", "cancelled_sent"}

\* the camera receives the stop request of coroutine t: a recording in
\* progress ends; an idle camera has nothing to end, and the request comes
\* after the one that ended the last recording
StopReaches(t) ==
    [by       |-> t,
     began_by |-> cam_rec_by,
     rec      |-> IF cam_recording THEN cam_rec_by ELSE cam_stop.rec,
     after    |-> IF cam_recording THEN NoTask
                  ELSE IF cam_stop.by = t THEN cam_stop.after
                  ELSE cam_stop.by]

\* where a coroutine goes on when its async_stop_recording has returned
AfterStop(task, ret) ==
    IF task.kind = "timed"
       THEN [task EXCEPT !.pc = "sleep1", !.wake = now + 1, !.ep = 0,
                         !.cancel = NoTask]
       ELSE Finished(task, ret)

\* room left for one more coroutine; a timed start in progress may still
\* create its scheduled stop
Reserved == Cardinality({t \in DOMAIN tasks :
                            tasks[t].kind = "timed" /\ tasks[t].pc # "done"})
Room(n) == Len(tasks) + Reserved + n <= MaxTasks
\* the coroutines that are inside a service call or inside the scheduled stop
Active == Cardinality({t \in DOMAIN tasks :
                          tasks[t].pc \in {"stop_send", "sleep1", "manual_send",
                                           "start_send"}})
\* the artifact tasks created so far
HaTasks == Cardinality({t \in DOMAIN tasks : tasks[t].kind = "ha"})

\* the local branch of async_get_recording_status (lines 2146-2155), and the
\* answer of the camera when one of its status endpoints replies
async_get_recording_status(camera_answers) ==
    IF camera_answers
       THEN [source |-> "camera", recording |-> cam_recording, remaining |-> 0]
       ELSE IF _recording_end_time # NoTime /\ _recording_end_time - now > 0
               THEN [source |-> "local", recording |-> TRUE,
                     remaining |-> _recording_end_time - now]
               ELSE [source |-> "local", recording |-> FALSE, remaining |-> 0]

\* hass.loop.time() advances
Tick ==
    /\ now < MaxTime
    /\ now' = now + 1
    /\ UNCHANGED <<device, _recording_task, _ha_recording_task,
                   _recording_end_time, tasks, cam_recording, cam_rec_by,
                   cam_stop>>
    /\ UNCHANGED <<rv_vars, st_vars, d_vars, calls, rs_vars, dg_vars, ext_vars>>

\* service stop_recording: async_stop_recording is entered
StopRecordingCall ==
    /\ Room(1)
    /\ Active < MaxActive
    /\ LET self == Len(tasks) + 1
       IN  IF SdSupported
              THEN LET e == StopEntry(
                               Append(tasks, [Task("stop", "stop_send")
                                                 EXCEPT !.ep = 1]), self)
                   IN  /\ tasks' = e.tasks
                       /\ _recording_task' = e.handle
              ELSE /\ tasks' = Append(tasks, [Task("stop", "done")
                                                 EXCEPT !.ret = "false"])
                   /\ UNCHANGED _recording_task
    /\ UNCHANGED <<device, now, _ha_recording_task, _recording_end_time,
                   cam_recording, cam_rec_by, cam_stop>>
    /\ UNCHANGED <<rv_vars, st_vars, d_vars, calls, rs_vars, dg_vars, ext_vars>>

\* async_stop_recording: one pass of the loop over the stop endpoints
StopRecordingSend ==
    \E t \in DOMAIN tasks :
        /\ tasks[t].pc = "stop_send"
        /\ \E outcome \in SendOutcomes(tasks[t]) :
            /\ IF Reached(outcome)
                  THEN /\ cam_recording' = FALSE
                       /\ cam_rec_by' = NoTask
                       /\ cam_stop' = StopReaches(t)
                  ELSE UNCHANGED <<cam_recording, cam_rec_by, cam_stop>>
            /\ LET ts == [tasks EXCEPT ![t].sent = @ \/ Issued(outcome)]
               IN  IF Returned(outcome)
                      THEN /\ _recording_end_time' = NoTime
                           /\ tasks' = [ts EXCEPT ![t] = AfterStop(@, "true")]
                      ELSE /\ UNCHANGED _recording_end_time
                           /\ tasks' =
                                IF ts[t].ep < Len(stop_endpoints)
                                   THEN [ts EXCEPT ![t] = NextEndpoint(@)]
                                   ELSE [ts EXCEPT ![t] = AfterStop(@, "false")]
        /\ UNCHANGED <<device, now, _recording_task, _ha_recording_task>>
        /\ UNCHANGED <<rv_vars, st_vars, d_vars, calls, rs_vars, dg_vars,
                       ext_vars>>

\* service start_recording without duration: async_start_recording is entered
StartRecordingCall ==
    /\ Room(1)
    /\ Active < MaxActive
    /\ tasks' = Append(tasks,
                   IF SdSupported
                      THEN [Task("start", "start_send") EXCEPT !.ep = 1]
                      ELSE [Task("start", "done") EXCEPT !.ret = "false"])
    /\ UNCHANGED <<device, now, _recording_task, _ha_recording_task,
                   _recording_end_time, cam_recording, cam_rec_by, cam_stop>>
    /\ UNCHANGED <<rv_vars, st_vars, d_vars, calls, rs_vars, dg_vars, ext_vars>>

\* async_start_recording: one pass of the loop over the start endpoints,
\* for the plain start and for the start inside a timed start; the timed
\* start then sets the end time and creates stop_after_delay (2102-2117)
StartRecordingSend ==
    \E t \in DOMAIN tasks :
        /\ tasks[t].pc = "start_send"
        /\ \E outcome \in SendOutcomes(tasks[t]) :
            /\ IF Reached(outcome)
                  THEN cam_recording' = TRUE /\ cam_rec_by' = t
                  ELSE UNCHANGED <<cam_recording, cam_rec_by>>
            /\ IF Returned(outcome)
                  THEN IF tasks[t].kind = "timed"
                          THEN /\ _recording_end_time' = now + tasks[t].dur
                               /\ _recording_task' = Len(tasks) + 1
                               /\ tasks' = Append(
                                    [tasks EXCEPT ![t] = Finished(@, "true")],
                                    [Task("timer", "sleep")
                                        EXCEPT !.dur = tasks[t].dur,
                                               !.wake = now + tasks[t].dur,
                                               !.origin = t])
                          ELSE /\ _recording_end_time' = NoTime
                               /\ UNCHANGED _recording_task
                               /\ tasks' = [tasks EXCEPT ![t] = Finished(@, "true")]
                  ELSE /\ UNCHANGED <<_recording_end_time, _recording_task>>
                       /\ tasks' =
                            IF tasks[t].ep < Len(start_endpoints)
                               THEN [tasks EXCEPT ![t] = NextEndpoint(@)]
                               ELSE [tasks EXCEPT ![t] = Finished(@, "false")]
        /\ UNCHANGED <<device, now, _ha_recording_task, cam_stop>>
        /\ UNCHANGED <<rv_vars, st_vars, d_vars, calls, rs_vars, dg_vars,
                       ext_vars>>

\* async_start_timed_recording(duration, save_to_ha=True, method): the prior
\* artifact task is cancelled, not awaited; the new one is created and tracked
TimedRecordingHa ==
    /\ Room(1)
    /\ HaTasks < MaxHaTasks
    /\ \E dur \in 1..MaxRecDuration, method \in {"snapshots", "rtsp"} :
        LET self == Len(tasks) + 1
            ts == Append(tasks, [Task("ha", "running")
                                    EXCEPT !.dur = dur, !.method = method])
        IN  /\ tasks' = IF InFlight(ts, _ha_recording_task)
                           THEN RequestCancel(ts, _ha_recording_task, self)
                           ELSE ts
            /\ _ha_recording_task' = self
            /\ _recording_end_time' = now + dur
    /\ UNCHANGED <<device, now, _recording_task, cam_recording, cam_rec_by,
                   cam_stop>>
    /\ UNCHANGED <<rv_vars, st_vars, d_vars, calls, rs_vars, dg_vars, ext_vars>>

\* async_start_timed_recording(duration, save_to_ha=False): up to the first
\* request of its async_stop_recording
TimedRecordingSd ==
    /\ Room(2)
    /\ Active < MaxActive
    /\ \E dur \in 1..MaxRecDuration :
        LET self == Len(tasks) + 1
        IN  IF SdSupported
               THEN LET e == StopEntry(
                                Append(tasks, [Task("timed", "stop_send")
                                                  EXCEPT !.ep = 1,
                                                         !.dur = dur]), self)
                    IN  /\ tasks' = e.tasks
                        /\ _recording_task' = e.handle
               ELSE /\ tasks' = Append(tasks, [Task("timed", "done")
                                                  EXCEPT !.ret = "false"])
                    /\ UNCHANGED _recording_task
    /\ UNCHANGED <<device, now, _ha_recording_task, _recording_end_time,
                   cam_recording, cam_rec_by, cam_stop>>
    /\ UNCHANGED <<rv_vars, st_vars, d_vars, calls, rs_vars, dg_vars, ext_vars>>

\* await asyncio.sleep(1) of the timed start is over
TimedRecordingSleep ==
    \E t \in DOMAIN tasks :
        /\ tasks[t].pc = "sleep1"
        /\ now >= tasks[t].wake
        /\ tasks' = [tasks EXCEPT ![t].pc = "manual_send"]
        /\ UNCHANGED <<device, now, _recording_task, _ha_recording_task,
                       _recording_end_time, cam_recording, cam_rec_by,
                       cam_stop>>
        /\ UNCHANGED <<rv_vars, st_vars, d_vars, calls, rs_vars, dg_vars,
                       ext_vars>>

\* the timed start asks the camera for a recording of the given duration
TimedRecordingManual ==
    \E t \in DOMAIN tasks :
        /\ tasks[t].pc = "manual_send"
        /\ \E outcome \in SendOutcomes(tasks[t]) :
            /\ IF Reached(outcome)
                  THEN cam_recording' = TRUE /\ cam_rec_by' = t
                  ELSE UNCHANGED <<cam_recording, cam_rec_by>>
            /\ IF Returned(outcome)
                  THEN /\ _recording_end_time' = now + tasks[t].dur
                       /\ tasks' = [tasks EXCEPT ![t] = Finished(@, "true")]
                  ELSE /\ UNCHANGED _recording_end_time
                       /\ tasks' = [tasks EXCEPT ![t].pc = "start_send",
                                                 ![t].ep = 1]
        /\ UNCHANGED <<device, now, _recording_task, _ha_recording_task,
                       cam_stop>>
        /\ UNCHANGED <<rv_vars, st_vars, d_vars, calls, rs_vars, dg_vars,
                       ext_vars>>

\* stop_after_delay: asyncio.sleep(duration) is over and the scheduled stop
\* enters async_stop_recording, where the handle cancelled may be its own
StopAfterDelayFires ==
    \E t \in DOMAIN tasks :
        /\ tasks[t].kind = "timer"
        /\ tasks[t].pc = "sleep"
        /\ now >= tasks[t].wake
        /\ LET e == StopEntry([tasks EXCEPT ![t].pc = "stop_send",
                                            ![t].ep = 1], t)
           IN  /\ tasks' = e.tasks
               /\ _recording_task' = e.handle
        /\ UNCHANGED <<device, now, _ha_recording_task, _recording_end_time,
                       cam_recording, cam_rec_by, cam_stop>>
        /\ UNCHANGED <<rv_vars, st_vars, d_vars, calls, rs_vars, dg_vars,
                       ext_vars>>

\* async_record_to_ha_media returns its result
HaTaskDone ==
    \E t \in DOMAIN tasks :
        /\ tasks[t].kind = "ha"
        /\ tasks[t].pc = "running"
        /\ tasks[t].cancel = NoTask
        /\ tasks' = [tasks EXCEPT ![t] = Finished(@, "result")]
        /\ UNCHANGED <<device, now, _recording_task, _ha_recording_task,
                       _recording_end_time, cam_recording, cam_rec_by,
                       cam_stop>>
        /\ UNCHANGED <<rv_vars, st_vars, d_vars, calls, rs_vars, dg_vars,
                       ext_vars>>

\* the CancelledError reaches the artifact task and ends it
HaTaskCancelled ==
    \E t \in DOMAIN tasks :
        /\ tasks[t].kind = "ha"
        /\ tasks[t].pc = "running"
        /\ tasks[t].cancel # NoTask
        /\ tasks' = [tasks EXCEPT ![t] = Cancelled(@, @.cancel)]
        /\ UNCHANGED <<device, now, _recording_task, _ha_recording_task,
                       _recording_end_time, cam_recording, cam_rec_by,
                       cam_stop>>
        /\ UNCHANGED <<rv_vars, st_vars, d_vars, calls, rs_vars, dg_vars,
                       ext_vars>>

\* the CancelledError is raised in a probe of record_rtsp_stream, where the
\* bare except of _check_rtsp_available swallows it: the task goes on
HaTaskSwallowsCancel ==
    \E t \in DOMAIN tasks :
        /\ tasks[t].kind = "ha"
        /\ tasks[t].pc = "running"
        /\ tasks[t].cancel # NoTask
        /\ tasks[t].method = "rtsp"
        /\ tasks' = [tasks EXCEPT ![t].cancel = NoTask]
        /\ UNCHANGED <<device, now, _recording_task, _ha_recording_task,
                       _recording_end_time, cam_recording, cam_rec_by,
                       cam_stop>>
        /\ UNCHANGED <<rv_vars, st_vars, d_vars, calls, rs_vars, dg_vars,
                       ext_vars>>

-----------------------------------------------------------------------------
(***************************************************************************)
(* record_and_send_to_telegram and the coordinator's                       *)
(* async_record_and_send_telegram                                          *)
(***************************************************************************)

\* the key "telegram_sent" is only set after a successful recording
NoDeliveredResult == [success |-> FALSE, telegram_sent |-> "absent"]

\* if result.get("success"): the delivery is attempted
DeliveryWantedAlways(result) == TRUE
DeliveryWanted(result) == result.success

\* the recorder the method selects, and what it returned
RecorderDone == IF ras_method = "rtsp" THEN rs_pc = "done" ELSE rv_pc = "done"
RecorderCancelled ==
    IF ras_method = "rtsp" THEN rs_pc = "cancelled" ELSE rv_pc = "cancelled"
RecorderResult == IF ras_method = "rtsp" THEN rs_result ELSE rv_result

\* the recorder has returned: its locals are gone (record_and_send_to_telegram
\* holds the result only, and is not followed to the disk any further)
RecorderLocalsGone ==
    /\ rv_pc' = "idle"
    /\ duration' = 0
    /\ snapshot_interval' = 0
    /\ frames' = 0
    /\ i' = 0
    /\ successful_frames' = 0
    /\ temp_dir_exists' = FALSE
    /\ temp_files' = {}
    /\ captures' = <<>>
    /\ ffmpeg_runs' = <<>>
    /\ rv_result' = NoResult
    /\ add_osd' = FALSE
    /\ osd_template' = "none"
    /\ osd_lines' = <<>>
    /\ telemetry' = 0
    /\ overlays' = <<>>
    /\ rs_pc' = "idle"
    /\ stream_profile' = "main"
    /\ with_audio' = FALSE
    /\ stream_path' = PrimaryPath("main")
    /\ rtsp_url' = PrimaryPath("main")
    /\ alt' = 0
    /\ probes' = <<>>
    /\ copies' = <<>>
    /\ depth' = 0
    /\ rs_result' = NoStreamResult

\* service record_and_send_telegram: async_record_and_send_telegram calls
\* recorder.record_and_send_to_telegram(duration, method, caption, chat_id)
RecordAndSendCall ==
    /\ ras_pc = "idle"
    /\ \E method \in {"snapshots", "rtsp"} : ras_method' = method
    /\ ras_pc' = "recording"
    /\ UNCHANGED <<ras_result, ras_notification>>
    /\ UNCHANGED <<base_vars, tj_vars, cs_vars, overlay_vars>>

\* the recorder returned its dict: on success send_to_telegram is awaited,
\* otherwise the dict is returned as it is
RecordingReturns ==
    /\ ras_pc = "recording"
    /\ RecorderDone
    /\ ras_result' = [success |-> RecorderResult.success,
                      telegram_sent |-> "absent"]
    /\ ras_pc' = IF DeliveryWanted(RecorderResult) THEN "sending" ELSE "returned"
    /\ RecorderLocalsGone
    /\ UNCHANGED <<ras_method, ras_notification>>
    /\ UNCHANGED <<st_vars, d_vars, calls, dg_vars, oc_vars, tj_vars, cs_vars,
                   overlay_vars>>

\* the CancelledError that ended record_video ends its caller too
RecordingCancelled ==
    /\ ras_pc = "recording"
    /\ RecorderCancelled
    /\ ras_pc' = "cancelled"
    /\ RecorderLocalsGone
    /\ UNCHANGED <<ras_method, ras_result, ras_notification>>
    /\ UNCHANGED <<st_vars, d_vars, calls, dg_vars, oc_vars, tj_vars, cs_vars,
                   overlay_vars>>

\* telegram_success = await self.send_to_telegram(filepath, caption, chat_id)
Delivering ==
    /\ ras_pc = "sending"
    /\ \/ SendStart
       \/ UploadAttempt
       \/ DirectExhausted
       \/ DirectReturn
       \/ SendVideo
       \/ SendFile
       \/ Notify

\* result["telegram_sent"] = telegram_success; return result
DeliveryReturns ==
    /\ ras_pc = "sending"
    /\ st_pc = "done"
    /\ ras_result' = [ras_result EXCEPT !.telegram_sent = st_result]
    /\ ras_pc' = "returned"
    /\ UNCHANGED <<ras_method, ras_notification>>
    /\ UNCHANGED <<base_vars, tj_vars, cs_vars, overlay_vars>>

\* async_record_and_send_telegram, after the recorder's call: one of two
\* persistent notifications for a recording that succeeded, none otherwise
CoordinatorNotifies ==
    /\ ras_pc = "returned"
    /\ ras_notification' =
          IF ras_result.success /\ ras_result.telegram_sent = "true"
             THEN "saved_and_sent"
             ELSE IF ras_result.success THEN "saved_not_sent" ELSE "none"
    /\ ras_pc' = "done"
    /\ UNCHANGED <<ras_method, ras_result>>
    /\ UNCHANGED <<base_vars, tj_vars, cs_vars, overlay_vars>>

-----------------------------------------------------------------------------
(***************************************************************************)
(* _capture_snapshot                                                       *)
(***************************************************************************)

NothingStored == [from |-> "none", at |-> "none", response |-> "none"]

\* snapshot_urls, by path (every one on self.host:self.port)
snapshot_urls ==
    << "/image.jpg",
       "/cgi-bin/api.cgi?cmd=Snap&channel=0",
       "/cgi-bin/snapshot.cgi",
       "/snapshot.jpg",
       "/img/snapshot.cgi",
       "/cgi-bin/currentpic.cgi",
       "/tmpfs/auto.jpg",
       "/cgi-bin/api.cgi?cmd=Snap&channel=0&rs=wuuPhkmj&user=&password=" >>

\* what one GET can give: an exception (timeout, connection error), a status
\* other than 200, or a 200 whose body is an image or not, of more than 1000
\* bytes or not
SnapshotResponses ==
    {"exception", "http_error", "html_small", "html_big", "image_small",
     "image_big"}
StatusOk(r) == r \in {"html_small", "html_big", "image_small", "image_big"}
ImageType(r) == r \in {"image_small", "image_big"}
LargeBody(r) == r \in {"html_big", "image_big"}

\* the test of the loop over snapshot_urls: status 200, 'image' in the
\* Content-Type, len(data) > 1000
UrlAccepts(r) == StatusOk(r) /\ ImageType(r) /\ LargeBody(r)
\* the test of the loop over the coordinators: status 200, len(data) > 1000
CoordinatorAccepts(r) == StatusOk(r) /\ LargeBody(r)

\* the coordinators registered in hass.data[DOMAIN], in the order of the
\* dict, by host: the recorder's own camera and possibly another one
HostOrders == {<<"own">>, <<"own", "other">>, <<"other", "own">>}

\* _capture_snapshot(snapshot_path) is called
CaptureSnapshotCall ==
    /\ cs_pc = "idle"
    /\ \E hosts \in HostOrders : cs_hosts' = hosts
    /\ cs_pc' = "urls"
    /\ cs_idx' = 1
    /\ cs_last_error' = "None"
    /\ UNCHANGED <<cs_tried, cs_stored, cs_result>>
    /\ UNCHANGED <<base_vars, ras_vars, tj_vars, overlay_vars>>

\* one iteration of `for url in snapshot_urls`
TrySnapshotUrl ==
    /\ cs_pc = "urls"
    /\ \E r \in SnapshotResponses :
        /\ cs_tried' = Append(cs_tried, <<"url", snapshot_urls[cs_idx],
                                          UrlAccepts(r)>>)
        /\ cs_last_error' = IF r = "exception" THEN snapshot_urls[cs_idx]
                                               ELSE cs_last_error
        /\ IF UrlAccepts(r)
              THEN /\ cs_stored' = [from |-> "url", at |-> snapshot_urls[cs_idx],
                                    response |-> r]
                   /\ cs_result' = "true"
                   /\ cs_pc' = "done"
                   /\ UNCHANGED cs_idx
              ELSE /\ IF cs_idx < Len(snapshot_urls)
                         THEN cs_idx' = cs_idx + 1 /\ cs_pc' = "urls"
                         ELSE cs_idx' = 1 /\ cs_pc' = "coordinators"
                   /\ UNCHANGED <<cs_stored, cs_result>>
    /\ UNCHANGED cs_hosts
    /\ UNCHANGED <<base_vars, ras_vars, tj_vars, overlay_vars>>

\* one iteration of `for entry_id, coordinator in hass.data[DOMAIN].items()`:
\* http://{coordinator.host}:{coordinator.port}/image.jpg; an exception
\* leaves the loop
TryCoordinator ==
    /\ cs_pc = "coordinators"
    /\ cs_idx <= Len(cs_hosts)
    /\ \E r \in SnapshotResponses :
        /\ cs_tried' = Append(cs_tried, <<"coordinator", cs_hosts[cs_idx],
                                          CoordinatorAccepts(r)>>)
        /\ IF CoordinatorAccepts(r)
              THEN /\ cs_stored' = [from |-> "coordinator",
                                    at |-> cs_hosts[cs_idx], response |-> r]
                   /\ cs_result' = "true"
                   /\ cs_pc' = "done"
                   /\ UNCHANGED <<cs_idx, cs_last_error>>
              ELSE IF r = "exception"
              THEN /\ cs_last_error' = cs_hosts[cs_idx]
                   /\ cs_result' = "raised"
                   /\ cs_pc' = "done"
                   /\ UNCHANGED <<cs_idx, cs_stored>>
              ELSE /\ cs_idx' = cs_idx + 1
                   /\ UNCHANGED <<cs_pc, cs_stored, cs_result, cs_last_error>>
    /\ UNCHANGED cs_hosts
    /\ UNCHANGED <<base_vars, ras_vars, tj_vars, overlay_vars>>

\* raise Exception("Failed to capture snapshot: ...")
SnapshotFails ==
    /\ cs_pc = "coordinators"
    /\ cs_idx > Len(cs_hosts)
    /\ cs_result' = "raised"
    /\ cs_pc' = "done"
    /\ UNCHANGED <<cs_idx, cs_hosts, cs_tried, cs_stored, cs_last_error>>
    /\ UNCHANGED <<base_vars, ras_vars, tj_vars, overlay_vars>>

-----------------------------------------------------------------------------
(***************************************************************************)
(* The snapshot jobs of one camera: every entry point that reaches         *)
(* record_video, and the temp_<timestamp> directory each job works in      *)
(***************************************************************************)

MaxJobs == 3
MaxClock == 2

\* a record_video coroutine: who started it, where it is, the second its
\* directory is named after, and whether task.cancel() was called on it
Job(entry) == [entry |-> entry, pc |-> "created", dir |-> 0, cancel |-> FALSE]
JobInFlight(j) == j # NoTask /\ tj_jobs[j].pc \in {"created", "running"}
\* the jobs that hold a directory
LiveJobs == {j \in DOMAIN tj_jobs : tj_jobs[j].pc = "running"}

\* datetime.now() reaches the next second
ClockTick ==
    /\ tj_clock < MaxClock
    /\ tj_clock' = tj_clock + 1
    /\ UNCHANGED <<tj_jobs, tj_dirs, tj_handle>>
    /\ UNCHANGED <<base_vars, ras_vars, cs_vars, overlay_vars>>

\* async_start_timed_recording(duration, save_to_ha=True, "snapshots"): the
\* prior task is cancelled, not awaited; async_record_to_ha_media, which
\* calls record_video(duration), is created as the new task
TimedJobStart ==
    /\ Len(tj_jobs) < MaxJobs
    /\ tj_jobs' = Append(IF JobInFlight(tj_handle)
                            THEN [tj_jobs EXCEPT ![tj_handle].cancel = TRUE]
                            ELSE tj_jobs,
                         Job("timed"))
    /\ tj_handle' = Len(tj_jobs) + 1
    /\ UNCHANGED <<tj_clock, tj_dirs>>
    /\ UNCHANGED <<base_vars, ras_vars, cs_vars, overlay_vars>>

\* service record_and_send_telegram with method "snapshots":
\* record_and_send_to_telegram awaits record_video(duration)
DeliverJobStart ==
    /\ Len(tj_jobs) < MaxJobs
    /\ tj_jobs' = Append(tj_jobs, Job("deliver"))
    /\ UNCHANGED <<tj_clock, tj_dirs, tj_handle>>
    /\ UNCHANGED <<base_vars, ras_vars, cs_vars, overlay_vars>>

\* service record_with_osd: the handler awaits record_video(duration,
\* snapshot_interval=5, add_osd=True, osd_config=osd_config)
OsdJobStart ==
    /\ Len(tj_jobs) < MaxJobs
    /\ tj_jobs' = Append(tj_jobs, Job("osd"))
    /\ UNCHANGED <<tj_clock, tj_dirs, tj_handle>>
    /\ UNCHANGED <<base_vars, ras_vars, cs_vars, overlay_vars>>

\* record_video: temp_dir = record_folder / temp_<now, to the second>;
\* temp_dir.mkdir(exist_ok=True)
JobMakesTempDir ==
    \E j \in DOMAIN tj_jobs :
        /\ tj_jobs[j].pc = "created"
        /\ ~tj_jobs[j].cancel
        /\ tj_jobs' = [tj_jobs EXCEPT ![j].pc = "running", ![j].dir = tj_clock]
        /\ tj_dirs' = tj_dirs \cup {tj_clock}
        /\ UNCHANGED <<tj_clock, tj_handle>>
        /\ UNCHANGED <<base_vars, ras_vars, cs_vars, overlay_vars>>

\* record_video ends, with its video or in its except handler: both run
\* _cleanup_temp_files_async(temp_dir), which removes the directory
JobFinishes ==
    \E j \in DOMAIN tj_jobs :
        /\ tj_jobs[j].pc = "running"
        /\ ~tj_jobs[j].cancel
        /\ tj_jobs' = [tj_jobs EXCEPT ![j].pc = "done"]
        /\ tj_dirs' = tj_dirs \ {tj_jobs[j].dir}
        /\ UNCHANGED <<tj_clock, tj_handle>>
        /\ UNCHANGED <<base_vars, ras_vars, cs_vars, overlay_vars>>

\* the CancelledError reaches the job at its next await: no handler, no
\* cleanup
JobCancelled ==
    \E j \in DOMAIN tj_jobs :
        /\ JobInFlight(j)
        /\ tj_jobs[j].cancel
        /\ tj_jobs' = [tj_jobs EXCEPT ![j].pc = "cancelled"]
        /\ UNCHANGED <<tj_clock, tj_dirs, tj_handle>>
        /\ UNCHANGED <<base_vars, ras_vars, cs_vars, overlay_vars>>

-----------------------------------------------------------------------------
(***************************************************************************)
(* _get_osd_values                                                         *)
(***************************************************************************)

NoValues == [camera_name |-> "none", telemetry_of |-> "none"]

\* the keys of hass.data[DOMAIN]: "config", the entry of the camera this
\* recorder belongs to, the entry of another camera
RegistryIds == {"config", "own", "other"}
\* an entry and whether its coordinator has data (coordinator.data truthy)
RegistryEntries == [id : RegistryIds, data : BOOLEAN]
\* the dicts hass.data[DOMAIN] can be, as the sequence of their items: no
\* key twice, the recorder's own coordinator among them
Registries ==
    {reg \in UNION {[1..n -> RegistryEntries] : n \in 1..Cardinality(RegistryIds)} :
        /\ \A j, k \in DOMAIN reg : reg[j].id = reg[k].id => j = k
        /\ \E k \in DOMAIN reg : reg[k].id = "own"
        /\ \A k \in DOMAIN reg : reg[k].id = "config" => ~reg[k].data}

\* if entry_id == "config": continue
\* if hasattr(coordinator, 'data') and coordinator.data: ... return values
EntryGivesValues(en) == en.id # "config" /\ en.data

\* _get_osd_values is awaited
GetOsdValuesCall ==
    /\ ov_pc = "idle"
    /\ \E reg \in Registries : ov_registry' = reg
    /\ ov_idx' = 1
    /\ ov_pc' = "loop"
    /\ UNCHANGED ov_values
    /\ UNCHANGED <<base_vars, ras_vars, tj_vars, cs_vars, ft_vars>>

\* one iteration of `for entry_id, coordinator in hass.data[DOMAIN].items()`:
\* the values are built from coordinator.data["parsed"] of the first entry
\* that has data, under self.camera_name
OsdValuesLoop ==
    /\ ov_pc = "loop"
    /\ ov_idx <= Len(ov_registry)
    /\ IF EntryGivesValues(ov_registry[ov_idx])
          THEN /\ ov_values' = [camera_name |-> "own",
                                telemetry_of |-> ov_registry[ov_idx].id]
               /\ ov_pc' = "done"
               /\ UNCHANGED ov_idx
          ELSE /\ ov_idx' = ov_idx + 1
               /\ UNCHANGED <<ov_pc, ov_values>>
    /\ UNCHANGED ov_registry
    /\ UNCHANGED <<base_vars, ras_vars, tj_vars, cs_vars, ft_vars>>

\* no entry had data: the values are "N/A" / "Unknown"
OsdValuesDefault ==
    /\ ov_pc = "loop"
    /\ ov_idx > Len(ov_registry)
    /\ ov_values' = [camera_name |-> "own", telemetry_of |-> "none"]
    /\ ov_pc' = "done"
    /\ UNCHANGED <<ov_registry, ov_idx>>
    /\ UNCHANGED <<base_vars, ras_vars, tj_vars, cs_vars, ft_vars>>

-----------------------------------------------------------------------------
(***************************************************************************)
(* _add_text_to_image: the choice of the font                              *)
(***************************************************************************)

\* the .ttf files the fonts folder may hold, in the order sorted() gives
FontUniverse ==
    <<"Arial.ttf", "Comic.ttf", "DejaVuSans.ttf", "FreeSans.ttf", "Zeta.ttf">>
\* _get_font_files: sorted(files)
SortedFiles(present) == SelectSeq(FontUniverse, LAMBDA f : f \in present)

\* the values of osd_config['font'] considered
FontNames == {"default", "ARIAL", "sans", "zeta", "helvetica"}
\* font_name.lower() in f.lower(), for these names and files
NameMatches(name, f) ==
    \/ name = "ARIAL" /\ f = "Arial.ttf"
    \/ name = "sans" /\ f \in {"DejaVuSans.ttf", "FreeSans.ttf"}
    \/ name = "zeta" /\ f = "Zeta.ttf"

preferred_fonts ==
    <<"DejaVuSans.ttf", "LiberationSans-Regular.ttf", "OpenSans-Regular.ttf",
      "Roboto-Regular.ttf", "Arial.ttf", "FreeSans.ttf">>

\* the elements of a sequence
Range(seq) == {seq[k] : k \in DOMAIN seq}
\* the first element of a sequence that is in a set, "None" if none is
FirstIn(seq, S) ==
    LET ks == {k \in DOMAIN seq : seq[k] \in S}
    IN  IF ks = {} THEN "None"
        ELSE seq[CHOOSE k \in ks : \A j \in ks : k <= j]

\* if font_name != 'default': for f in font_files: if font_name.lower() in
\* f.lower(): font_path = f; break
FontByName(name, files) ==
    IF name # "default"
       THEN FirstIn(files, {f \in Range(files) : NameMatches(name, f)})
       ELSE "None"

\* for pref_font in preferred_fonts: for f in font_files: if f == pref_font
FontByRankSorted(files) == FirstIn(files, Range(preferred_fonts))
FontByRank(files) == FirstIn(preferred_fonts, Range(files))

\* font_path = fonts_dir / font_files[0]
FirstAvailable(files) == IF files # <<>> THEN files[1] ELSE "None"

\* _add_text_to_image(snapshot_path, osd_lines, osd_config) is awaited: the
\* folder is listed; with no folder or no file in it the call returns
AddTextCall ==
    /\ ft_pc = "idle"
    /\ \E name \in FontNames, present \in SUBSET Range(FontUniverse) :
        /\ ft_name' = name
        /\ ft_files' = SortedFiles(present)
        /\ IF present = {}
              THEN ft_pc' = "done" /\ ft_outcome' = "skipped"
              ELSE ft_pc' = "by_name" /\ ft_outcome' = "none"
    /\ UNCHANGED <<ft_font, ft_rule>>
    /\ UNCHANGED <<base_vars, ras_vars, tj_vars, cs_vars, ov_vars>>

\* the font named in the configuration
ChooseByName ==
    /\ ft_pc = "by_name"
    /\ ft_font' = FontByName(ft_name, ft_files)
    /\ ft_rule' = IF ft_font' # "None" THEN "name" ELSE ft_rule
    /\ ft_pc' = IF ft_font' # "None" THEN "load" ELSE "by_rank"
    /\ UNCHANGED <<ft_name, ft_files, ft_outcome>>
    /\ UNCHANGED <<base_vars, ras_vars, tj_vars, cs_vars, ov_vars>>

\* if font_path is None: the preferred fonts in their order
ChooseByRank ==
    /\ ft_pc = "by_rank"
    /\ ft_font' = FontByRank(ft_files)
    /\ ft_rule' = IF ft_font' # "None" THEN "rank" ELSE ft_rule
    /\ ft_pc' = IF ft_font' # "None" THEN "load" ELSE "first"
    /\ UNCHANGED <<ft_name, ft_files, ft_outcome>>
    /\ UNCHANGED <<base_vars, ras_vars, tj_vars, cs_vars, ov_vars>>

\* if font_path is None and font_files: the first file; if font_path is
\* still None: return
ChooseFirstAvailable ==
    /\ ft_pc = "first"
    /\ ft_font' = FirstAvailable(ft_files)
    /\ IF ft_font' # "None"
          THEN ft_rule' = "first" /\ ft_pc' = "load" /\ UNCHANGED ft_outcome
          ELSE ft_pc' = "done" /\ ft_outcome' = "skipped" /\ UNCHANGED ft_rule
    /\ UNCHANGED <<ft_name, ft_files>>
    /\ UNCHANGED <<base_vars, ras_vars, tj_vars, cs_vars, ov_vars>>

\* ImageFont.truetype loads the font, at the size asked or at 24, and the
\* lines are drawn and saved; or it loads at neither size, or the drawing
\* raises: the call logs and returns
LoadAndDraw ==
    /\ ft_pc = "load"
    /\ \E outcome \in {"drawn", "skipped"} : ft_outcome' = outcome
    /\ ft_pc' = "done"
    /\ UNCHANGED <<ft_name, ft_files, ft_font, ft_rule>>
    /\ UNCHANGED <<base_vars, ras_vars, tj_vars, cs_vars, ov_vars>>

-----------------------------------------------------------------------------
Init ==
    /\ rv_pc = "idle"
    /\ duration = 0
    /\ snapshot_interval = 0
    /\ frames = 0
    /\ i = 0
    /\ successful_frames = 0
    /\ temp_dir_exists = FALSE
    /\ temp_files = {}
    /\ captures = <<>>
    /\ ffmpeg_runs = <<>>
    /\ rv_result = NoResult
    /\ add_osd = FALSE
    /\ osd_template = "none"
    /\ osd_lines = <<>>
    /\ telemetry = 0
    /\ overlays = <<>>
    /\ st_pc = "idle"
    /\ file_exists = FALSE
    /\ file_size = 0
    /\ chat_id = None
    /\ bot_token = None
    /\ default_chat_id = None
    /\ target_chat_id = None
    /\ has_send_video = FALSE
    /\ has_send_file = FALSE
    /\ has_notify = FALSE
    /\ st_result = "none"
    /\ d_pc = "idle"
    /\ max_retries = 0
    /\ attempt = 0
    /\ timeouts = <<>>
    /\ waits = <<>>
    /\ d_result = "none"
    /\ calls = <<>>
    /\ rs_pc = "idle"
    /\ stream_profile = "main"
    /\ with_audio = FALSE
    /\ stream_path = PrimaryPath("main")
    /\ rtsp_url = PrimaryPath("main")
    /\ alt = 0
    /\ probes = <<>>
    /\ copies = <<>>
    /\ depth = 0
    /\ rs_result = NoStreamResult
    /\ dg_pc = "idle"
    /\ dg_idx = 1
    /\ dg_probed = <<>>
    /\ results = {}
    /\ InitOrchestrator
    /\ ras_pc = "idle"
    /\ ras_method = "snapshots"
    /\ ras_result = NoDeliveredResult
    /\ ras_notification = "none"
    /\ tj_jobs = <<>>
    /\ tj_clock = 1
    /\ tj_dirs = {}
    /\ tj_handle = NoTask
    /\ cs_pc = "idle"
    /\ cs_idx = 1
    /\ cs_hosts = <<>>
    /\ cs_tried = <<>>
    /\ cs_stored = NothingStored
    /\ cs_last_error = "None"
    /\ cs_result = "none"
    /\ ov_pc = "idle"
    /\ ov_registry = <<>>
    /\ ov_idx = 1
    /\ ov_values = NoValues
    /\ ft_pc = "idle"
    /\ ft_name = "default"
    /\ ft_files = <<>>
    /\ ft_font = "None"
    /\ ft_rule = "none"
    /\ ft_outcome = "none"

NextRecord ==
    \/ RecordStart
    \/ CaptureOk
    \/ CaptureFail
    \/ Sleep
    \/ NoFrames
    \/ FfmpegMissing
    \/ NoFirstFrame
    \/ FfmpegFails
    \/ FfmpegOk
    \/ TelemetryChanges
    \/ Cancel

SpecRecord == Init /\ [][NextRecord]_vars

NextDeliver ==
    \/ SendStart
    \/ DirectStart
    \/ UploadAttempt
    \/ DirectExhausted
    \/ DirectReturn
    \/ SendVideo
    \/ SendFile
    \/ Notify

SpecDeliver == Init /\ [][NextDeliver]_vars

NextStream ==
    \/ StreamStart
    \/ ProbePrimary
    \/ ProbeAlt
    \/ CopyTcp
    \/ CopyUdp

SpecStream == Init /\ [][NextStream]_vars

\* one recording by either method, as the callers dispatch it
\* (`if method == "rtsp": record_rtsp_stream(...) else: record_video(...)`)
NextRecording ==
    \/ rs_pc = "idle" /\ NextRecord
    \/ rv_pc = "idle" /\ NextStream

SpecRecording == Init /\ [][NextRecording]_vars

\* result = await self.record_video(duration)
RecordBySnapshots ==
    /\ ras_pc = "recording"
    /\ ras_method = "snapshots"
    /\ NextRecord
    /\ ~add_osd'

\* result = await self.record_rtsp_stream(duration, "main", False)
RecordByStream ==
    /\ ras_pc = "recording"
    /\ ras_method = "rtsp"
    /\ NextStream
    /\ stream_profile' = "main"
    /\ ~with_audio'

NextRecordAndSend ==
    \/ RecordAndSendCall
    \/ RecordBySnapshots
    \/ RecordByStream
    \/ RecordingReturns
    \/ RecordingCancelled
    \/ Delivering
    \/ DeliveryReturns
    \/ CoordinatorNotifies

SpecRecordAndSend == Init /\ [][NextRecordAndSend]_vars

NextSnapshot ==
    \/ CaptureSnapshotCall
    \/ TrySnapshotUrl
    \/ TryCoordinator
    \/ SnapshotFails

SpecSnapshot == Init /\ [][NextSnapshot]_vars

NextSnapshotJobs ==
    \/ ClockTick
    \/ TimedJobStart
    \/ DeliverJobStart
    \/ OsdJobStart
    \/ JobMakesTempDir
    \/ JobFinishes
    \/ JobCancelled

SpecSnapshotJobs == Init /\ [][NextSnapshotJobs]_vars

NextOsdValues ==
    \/ GetOsdValuesCall
    \/ OsdValuesLoop
    \/ OsdValuesDefault

SpecOsdValues == Init /\ [][NextOsdValues]_vars

NextFont ==
    \/ AddTextCall
    \/ ChooseByName
    \/ ChooseByRank
    \/ ChooseFirstAvailable
    \/ LoadAndDraw

SpecFont == Init /\ [][NextFont]_vars

NextDiagnose ==
    \/ DiagnoseStart
    \/ DiagnoseProbe
    \/ DiagnoseProbeRaises

SpecDiagnose == Init /\ [][NextDiagnose]_vars

NextOrchestrator ==
    \/ SetupDevice
    \/ Tick
    \/ StopRecordingCall
    \/ StopRecordingSend
    \/ StartRecordingCall
    \/ StartRecordingSend
    \/ TimedRecordingHa
    \/ TimedRecordingSd
    \/ TimedRecordingSleep
    \/ TimedRecordingManual
    \/ StopAfterDelayFires
    \/ HaTaskDone
    \/ HaTaskCancelled
    \/ HaTaskSwallowsCancel

SpecOrchestrator == Init /\ [][NextOrchestrator]_vars

\* timed camera-side recordings and manual stops only, with the event loop
\* running every coroutine that is ready: a request of async_send_command
\* ends within its timeout of 5 seconds, so a coroutine inside the loop over
\* the stop endpoints always takes its next step
NextScheduledStop ==
    \/ Tick
    \/ TimedRecordingSd
    \/ TimedRecordingSleep
    \/ TimedRecordingManual
    \/ StartRecordingSend
    \/ StopAfterDelayFires
    \/ StopRecordingCall
    \/ StopRecordingSend

SpecScheduledStop ==
    Init /\ [][NextScheduledStop]_vars /\ WF_vars(StopRecordingSend)

-----------------------------------------------------------------------------
(***************************************************************************)
(* Properties of record_video (checked under SpecRecord)                   *)
(***************************************************************************)

\* C1: when record_video has returned, _capture_snapshot was requested
\* exactly max(1, floor(duration / snapshot_interval)) times, once for each
\* index 0, 1, ..., in order, whatever the captures answered.
C1_CaptureCount ==
    rv_pc = "done" =>
        LET n == Len(captures)
        IN  /\ n >= 1
            /\ IF duration < snapshot_interval
                  THEN n = 1
                  ELSE /\ n * snapshot_interval <= duration
                       /\ duration < (n + 1) * snapshot_interval
            /\ \A k \in 1..n : captures[k] = k - 1

\* C1 witness: a finished job of three requested captures, duration not a
\* multiple of the interval, with failed and successful captures mixed.
C1_Witness ==
    /\ rv_pc = "done"
    /\ duration = 5
    /\ snapshot_interval = 2
    /\ Len(captures) = 2
    /\ successful_frames = 1

\* C2 (as claimed): a failed capture never aborts the job: when at least one
\* capture succeeded, at whatever index, and the transcoder did not fail
\* (it is installed and no run of it exited nonzero), record_video returns
\* success=true.
C2_FailedCaptureNeverAborts ==
    ( /\ rv_pc = "done"
      /\ successful_frames >= 1
      /\ rv_result.error \notin {"ffmpeg not found", "FFmpeg failed"} )
    => rv_result.success

-----------------------------------------------------------------------------
(***************************************************************************)
(* Properties of send_to_telegram and send_to_telegram_direct (checked     *)
(* under SpecDeliver)                                                      *)
(***************************************************************************)

Mechanisms == {"direct", "video", "file", "notify"}

Rank(m) ==
    CASE m = "direct" -> 1
      [] m = "video"  -> 2
      [] m = "file"   -> 3
      [] m = "notify" -> 4

\* a destination is given with the call or configured as the default
DestinationResolved == Truthy(chat_id) \/ Truthy(default_chat_id)

\* mechanism m is configured (direct: a bot token and a destination) or
\* registered with the host (the three services)
Available(m) ==
    CASE m = "direct" -> Truthy(bot_token) /\ DestinationResolved
      [] m = "video"  -> has_send_video
      [] m = "file"   -> has_send_file
      [] m = "notify" -> has_notify

Attempted(m) == \E k \in DOMAIN calls : calls[k][1] = m
NoCallSucceeded == \A k \in DOMAIN calls : calls[k][2] # "ok"

\* C5: an existing artifact above 50 MB makes send_to_telegram (and
\* send_to_telegram_direct on its own) return false with no upload and no
\* service call at all; an artifact of exactly 50 MB passes the check, so a
\* mechanism that is available is invoked for it.
C5_OversizeNeverUploaded ==
    /\ (file_exists /\ file_size > 50 * 1024 * 1024) =>
          /\ calls = <<>>
          /\ timeouts = <<>>
          /\ st_pc = "done" => (st_result = "false" /\ d_pc = "idle")
          /\ d_pc = "done" => d_result = "false"
    /\ ( /\ file_exists
         /\ file_size = 50 * 1024 * 1024
         /\ st_pc = "done"
         /\ DestinationResolved
         /\ \E m \in Mechanisms : Available(m) )
       => calls # <<>>
    /\ ( /\ file_exists
         /\ file_size = 50 * 1024 * 1024
         /\ st_pc = "idle"
         /\ d_pc = "done"
         /\ max_retries > 0 )
       => calls # <<>>

\* C5 witness: send_to_telegram has returned false for a 60 MB artifact
\* although a token, a destination and all three services were there.
C5_Witness ==
    /\ st_pc = "done"
    /\ file_exists
    /\ file_size = 60 * 1024 * 1024
    /\ Truthy(bot_token)
    /\ Truthy(chat_id)
    /\ has_send_video /\ has_send_file /\ has_notify
    /\ st_result = "false"

\* C6: within one send_to_telegram call the mechanisms are invoked in the
\* order direct, send_video, send_file, notify; a mechanism is invoked only
\* when every earlier available mechanism was invoked before it and nothing
\* before it succeeded; a success is the last invocation and makes the call
\* return true.
C6_PriorityOrder ==
    st_pc # "idle" =>
        /\ \A j, k \in DOMAIN calls :
              j < k => /\ Rank(calls[j][1]) <= Rank(calls[k][1])
                       /\ calls[j][2] # "ok"
        /\ \A k \in DOMAIN calls : \A m \in Mechanisms :
              (Rank(m) < Rank(calls[k][1]) /\ Available(m))
                  => \E j \in 1..(k - 1) : calls[j][1] = m
        /\ (st_pc = "done" /\ calls # <<>> /\ calls[Len(calls)][2] = "ok")
              => st_result = "true"
        /\ st_result = "true" => (calls # <<>> /\ calls[Len(calls)][2] = "ok")

\* C6 witness: direct and send_video failed, send_file succeeded, notify
\* was registered and was not invoked, the call returned true.
C6_Witness ==
    /\ st_pc = "done"
    /\ st_result = "true"
    /\ has_notify
    /\ Attempted("direct") /\ Attempted("video")
    /\ calls[Len(calls)] = <<"file", "ok">>

\* C7 (as claimed): for an existing artifact within the ceiling,
\* send_to_telegram returns false only when every configured or registered
\* mechanism was attempted and failed, with or without a destination.
C7_FalseOnlyAfterAllMechanisms ==
    ( /\ st_pc = "done"
      /\ file_exists
      /\ file_size <= 50 * 1024 * 1024
      /\ st_result = "false" )
    => /\ NoCallSucceeded
       /\ \A m \in Mechanisms : Available(m) => Attempted(m)

\* C7 (amended): for an existing artifact within the ceiling and a resolved
\* destination (the chat_id of the call, else the configured default),
\* send_to_telegram returns false only when every configured or registered
\* mechanism was attempted and none succeeded; with no destination resolved
\* it returns false without attempting any mechanism.
C7_FalseOnlyAfterAllMechanismsGivenDestination ==
    ( /\ st_pc = "done"
      /\ file_exists
      /\ file_size <= 50 * 1024 * 1024 )
    => /\ (st_result = "false" /\ DestinationResolved)
             => /\ NoCallSucceeded
                /\ \A m \in Mechanisms : Available(m) => Attempted(m)
       /\ ~DestinationResolved => (st_result = "false" /\ calls = <<>>)

\* C7 witness: a destination was given, all four mechanisms were available,
\* all were attempted and failed, and the call returned false.
C7_Witness ==
    /\ st_pc = "done"
    /\ st_result = "false"
    /\ Truthy(chat_id)
    /\ \A m \in Mechanisms : Available(m) /\ Attempted(m)

\* C8: the primary mechanism makes at most max_retries upload attempts, and
\* the timeout of each attempt is at least the timeout of the one before.
C8_RetryBoundAndTimeouts ==
    d_pc # "idle" =>
        /\ Len(timeouts) <= max_retries
        /\ Cardinality({k \in DOMAIN calls : calls[k][1] = "direct"}) <= max_retries
        /\ \A k \in 2..Len(timeouts) : timeouts[k] >= timeouts[k - 1]

\* C8 witness: five attempts of five were made, with the timeout growing.
C8_Witness ==
    /\ d_pc = "done"
    /\ max_retries = 5
    /\ Len(timeouts) = 5
    /\ timeouts[5] > timeouts[1]

\* C9: when the primary upload succeeds on attempt k, after k-1 attempts
\* that failed with a refusal, a timeout or an exception, the primary
\* mechanism returns true after exactly k attempts (k <= max_retries), and
\* send_to_telegram returns true with no fallback mechanism invoked.
C9_SuccessOnAttemptK ==
    \A k \in DOMAIN calls :
        calls[k] = <<"direct", "ok">> =>
            /\ k = Len(calls)
            /\ k = Len(timeouts)
            /\ k <= max_retries
            /\ \A j \in 1..(k - 1) :
                  /\ calls[j][1] = "direct"
                  /\ calls[j][2] \in {"error", "timeout", "exception"}
            /\ d_pc = "done"
            /\ d_result = "true"
            /\ st_pc \in {"idle", "direct", "done"}
            /\ st_pc = "done" => st_result = "true"

\* C9 witness: inside send_to_telegram the upload failed twice (a timeout,
\* an exception) and succeeded on attempt 3; the call returned true.
C9_Witness ==
    /\ st_pc = "done"
    /\ st_result = "true"
    /\ calls = << <<"direct", "timeout">>, <<"direct", "exception">>,
                  <<"direct", "ok">> >>

\* C10: after an upload answered "file is too big" the primary mechanism
\* makes no further attempt, waits no backoff after it, and returns false.
C10_TooBigStopsRetries ==
    \A k \in DOMAIN calls :
        calls[k] = <<"direct", "too_big">> =>
            /\ \A j \in DOMAIN calls : j > k => calls[j][1] # "direct"
            /\ Len(timeouts) = k
            /\ Len(waits) = k - 1
            /\ d_pc = "done"
            /\ d_result = "false"

\* C10 witness: the second of five attempts answered "file is too big" and
\* the primary mechanism has returned after one backoff wait.
C10_Witness ==
    /\ d_pc = "done"
    /\ max_retries = 5
    /\ Len(calls) = 2
    /\ calls[2] = <<"direct", "too_big">>
    /\ waits = <<10>>


\* C11: within one send_to_telegram call each of the services send_video,
\* send_file and notify is called at most once, never when it is not
\* registered, and a call that failed (error or timeout) is followed by the
\* next registered mechanism: the call returns false after a failed service
\* call only when no later mechanism is registered.
C11_FallbackOnceAndFallsThrough ==
    \A m \in Mechanisms \ {"direct"} :
        /\ Cardinality({k \in DOMAIN calls : calls[k][1] = m}) <= 1
        /\ Attempted(m) => Available(m)
        /\ \A k \in DOMAIN calls :
              (calls[k][1] = m /\ calls[k][2] # "ok") =>
                  LET later == {n \in Mechanisms :
                                   Rank(n) > Rank(m) /\ Available(n)}
                  IN  IF later = {}
                         THEN st_pc = "done" /\ st_result = "false"
                         ELSE \E n \in later :
                                /\ \A o \in later : Rank(n) <= Rank(o)
                                /\ \/ k < Len(calls) /\ calls[k + 1][1] = n
                                   \/ k = Len(calls) /\ st_pc = n

\* C11 witness: send_video timed out, send_file is not registered, notify
\* was then called and failed too; the call returned false.
C11_Witness ==
    /\ st_pc = "done"
    /\ st_result = "false"
    /\ ~has_send_file
    /\ \E k \in DOMAIN calls : calls[k] = <<"video", "timeout">>
    /\ calls[Len(calls)] = <<"notify", "error">>

-----------------------------------------------------------------------------
(***************************************************************************)
(* Properties of record_rtsp_stream (checked under SpecStream)             *)
(***************************************************************************)

\* the candidates in the order claimed: the primary path, then the fixed
\* list of alternates without the primary
Candidates ==
    <<PrimaryPath(stream_profile)>>
        \o SelectSeq(rtsp_paths, LAMBDA p : p # PrimaryPath(stream_profile))

TcpCopiesAfter(k, audio) ==
    {j \in DOMAIN copies :
        j > k /\ copies[j].transport = "tcp" /\ copies[j].audio = audio}

\* C12: the probes follow the order primary, then the alternates; the URL
\* resolved is the first candidate whose probe succeeded; the copy process
\* is invoked with that URL and a result naming a URL names that one.
C12_FirstWorkingCandidate ==
    /\ \A k \in DOMAIN probes :
          /\ k <= Len(Candidates)
          /\ probes[k][1] = Candidates[k]
          /\ k < Len(probes) => ~probes[k][2]
    /\ rs_pc \in {"copy_tcp", "copy_udp"} =>
          /\ probes # <<>>
          /\ probes[Len(probes)] = <<rtsp_url, TRUE>>
          /\ rtsp_url = Candidates[Len(probes)]
    /\ (rs_pc \in {"copy_udp", "done"} /\ copies # <<>>
            /\ rs_result.error # "No working RTSP URL found") =>
          /\ probes[Len(probes)][2]
          /\ copies[Len(copies)].url = probes[Len(probes)][1]
    /\ (rs_pc = "done" /\ rs_result.rtsp_url # "absent") =>
          rs_result.rtsp_url = probes[Len(probes)][1]

\* C12 witness: the primary probe failed, the first alternate answered, the
\* copy ran on the alternate and the result names the alternate.
C12_Witness ==
    /\ rs_pc = "done"
    /\ probes = << <<"/stream=0", FALSE>>, <<"/av0_0", TRUE>> >>
    /\ copies[1].url = "/av0_0"
    /\ rs_result.success
    /\ rs_result.rtsp_url = "/av0_0"

\* C13: when the probe of the primary path and of every alternate failed,
\* record_rtsp_stream returns success=false with "No working RTSP URL
\* found" and spawns no copy process.
C13_NoWorkingStreamPath ==
    ( /\ rs_pc \in {"copy_tcp", "copy_udp", "done"}
      /\ \A k \in DOMAIN probes : ~probes[k][2] )
    => /\ rs_pc = "done"
       /\ Len(probes) = Len(Candidates)
       /\ rs_result.success = FALSE
       /\ rs_result.error = "No working RTSP URL found"
       /\ Len(copies) = depth

\* C13 witness: the request on the main profile found all seven candidates
\* dead and returned.
C13_Witness ==
    /\ rs_pc = "done"
    /\ depth = 0
    /\ stream_profile = "main"
    /\ Len(probes) = 7
    /\ \A k \in DOMAIN probes : ~probes[k][2]

\* C14 (as claimed): a copy with audio that failed on the audio codec is
\* followed by exactly one copy without audio.
C14_AudioRetryExactlyOnce ==
    rs_pc = "done" =>
        \A k \in DOMAIN copies :
            (copies[k].audio /\ copies[k].outcome = "codec") =>
                Cardinality(TcpCopiesAfter(k, FALSE)) = 1

\* C14 (amended): after a copy with audio failed on the audio codec the
\* request is run again once without audio, probing the paths again; the
\* copy without audio is spawned once when one of these probes succeeds and
\* not at all when none does.  A copy without audio that fails on a codec is
\* never followed by another copy, so the request is re-run at most once.
C14_AudioRetryAtMostOnce ==
    /\ depth <= 1
    /\ depth = 1 => ~with_audio
    /\ \A k \in DOMAIN copies :
          /\ (copies[k].audio /\ copies[k].outcome = "codec") =>
                /\ k = 1
                /\ depth = 1
                /\ Cardinality(TcpCopiesAfter(k, TRUE)) = 0
                /\ Cardinality(TcpCopiesAfter(k, FALSE)) <= 1
                /\ rs_pc = "done" =>
                      ( Cardinality(TcpCopiesAfter(k, FALSE)) = 1
                          <=> \E p \in DOMAIN probes : probes[p][2] )
          /\ (~copies[k].audio /\ copies[k].outcome = "codec") =>
                (k = Len(copies) /\ rs_pc = "done" /\ ~rs_result.success)

\* C14 witness: the copy with audio failed on the codec, the copy without
\* audio succeeded.
C14_Witness ==
    /\ rs_pc = "done"
    /\ Len(copies) = 2
    /\ copies[1].audio /\ copies[1].outcome = "codec"
    /\ ~copies[2].audio /\ copies[2].outcome = "ok"
    /\ rs_result.success

\* C15: a copy over TCP that failed on the connection is followed by
\* exactly one copy over UDP and by nothing else; when the UDP copy fails
\* too, the result is success=false.
C15_UdpRetryOnce ==
    /\ \A k \in DOMAIN copies :
          /\ (copies[k].transport = "tcp" /\ copies[k].outcome = "conn") =>
                IF k = Len(copies)
                   THEN rs_pc = "copy_udp"
                   ELSE /\ k + 1 = Len(copies)
                        /\ copies[k + 1].transport = "udp"
                        /\ rs_pc = "done"
          /\ copies[k].transport = "udp" =>
                /\ k = Len(copies)
                /\ k > 1
                /\ copies[k - 1].transport = "tcp"
                /\ copies[k - 1].outcome = "conn"
                /\ rs_pc = "done"
                /\ rs_result.success = (copies[k].outcome = "ok")

\* C15 witness: the TCP copy failed on the connection, the UDP copy failed
\* as well, and the request returned its failure.
C15_Witness ==
    /\ rs_pc = "done"
    /\ Len(copies) = 2
    /\ copies[1].transport = "tcp" /\ copies[1].outcome = "conn"
    /\ copies[2].transport = "udp" /\ copies[2].outcome = "other"
    /\ ~rs_result.success

-----------------------------------------------------------------------------
(***************************************************************************)
(* Properties of the recording orchestrator (checked under                 *)
(* SpecOrchestrator)                                                       *)
(***************************************************************************)

\* the step in which a coroutine of the given kind is created
Created(kind) ==
    /\ Len(tasks') = Len(tasks) + 1
    /\ tasks'[Len(tasks')].kind = kind

Idle ==
    /\ _recording_task = NoTask
    /\ ~InFlight(tasks, _ha_recording_task)
    /\ _recording_end_time = NoTime
    /\ ~cam_recording

\* a step of a stop() service call
StopStep ==
    \/ Created("stop")
    \/ \E t \in DOMAIN tasks :
          tasks[t].kind = "stop" /\ tasks'[t] # tasks[t]

\* C17 (as claimed): every stop() drops the handle of the scheduled stop and
\* goes on to issue the stop request to the camera.
C17_StopCancelsAndIssues ==
    [][ Created("stop") =>
          /\ _recording_task' = NoTask
          /\ tasks'[Len(tasks')].pc = "stop_send"
      ]_vars

\* C17 (amended): on a device with camera-side recording stop() cancels the
\* scheduled stop that is pending, drops its handle and goes on to issue
\* the stop request; on Beward and Vivotek it returns false and changes
\* nothing.  While nothing is recording, the steps of stop() leave the
\* orchestrator's handles and end time as they are.
C17_StopCancelsAndIssuesWhereSupported ==
    [][ /\ Created("stop") =>
            LET new == Len(tasks')
            IN  IF SdSupported
                   THEN /\ _recording_task' = NoTask
                        /\ _recording_task # NoTask =>
                              tasks'[_recording_task].pc \in {"cancelled", "done"}
                        /\ tasks'[new].pc = "stop_send"
                   ELSE /\ tasks'[new].pc = "done"
                        /\ tasks'[new].ret = "false"
                        /\ SubSeq(tasks', 1, Len(tasks)) = tasks
                        /\ UNCHANGED <<_recording_task, _ha_recording_task,
                                       _recording_end_time>>
        /\ (Idle /\ StopStep) =>
              /\ UNCHANGED <<_recording_task, _ha_recording_task,
                             _recording_end_time, cam_recording>>
              /\ Idle'
      ]_vars

\* C17 witness: stop() found the scheduled stop asleep, cancelled it, dropped
\* the handle and is about to send the stop request.
C17_Witness ==
    \E s, t \in DOMAIN tasks :
        /\ tasks[s].kind = "stop" /\ tasks[s].pc = "stop_send"
        /\ tasks[t].kind = "timer" /\ tasks[t].pc = "cancelled"
        /\ tasks[t].cancel = s
        /\ _recording_task = NoTask

\* C18: a stop request of the scheduled stop of a timed start never stops a
\* recording begun by a start that was called after that timed start.
C18_NextStartWins ==
    ( /\ cam_stop.by # NoTask
      /\ tasks[cam_stop.by].kind = "timer"
      /\ cam_stop.began_by # NoTask )
    => cam_stop.began_by <= tasks[cam_stop.by].origin

\* C19: an artifact task is only ever asked to cancel by the start of the
\* next artifact job, never by a camera-side start, timed start, stop or
\* scheduled stop.
C19_ArtifactIndependent ==
    \A t \in DOMAIN tasks :
        (tasks[t].kind = "ha" /\ tasks[t].cancel # NoTask) =>
            tasks[tasks[t].cancel].kind = "ha"

-----------------------------------------------------------------------------
(***************************************************************************)
(* Properties of diagnose_rtsp (checked under SpecDiagnose)                *)
(***************************************************************************)

\* C20: the sweep returns one entry for each path of the catalog, each
\* with its success flag, having probed every path in order whatever
\* failed or raised on the way.
C20_OneEntryPerPath ==
    dg_pc = "done" =>
        /\ dg_probed = diagnose_paths
        /\ {r.path : r \in results} = {diagnose_paths[k] : k \in 1..22}
        /\ Cardinality(results) = 22
        /\ \A r \in results : r.success \in BOOLEAN

\* C20 witness: the first path raised, a later one answered, and the sweep
\* went to its end.
C20_Witness ==
    /\ dg_pc = "done"
    /\ [path |-> "/stream=0", success |-> FALSE, error |-> "exception"] \in results
    /\ [path |-> "/live", success |-> TRUE, error |-> "None"] \in results


-----------------------------------------------------------------------------
(***************************************************************************)
(* Properties of the results of both recorders (checked under              *)
(* SpecRecording) and of the frames and overlays of record_video (checked  *)
(* under SpecRecord)                                                       *)
(***************************************************************************)

\* C21: no exception leaves record_video or record_rtsp_stream; a call that
\* was not cancelled returns a dict with success, and with an error string
\* when success is false, whatever captures, probes and processes did.
C21_NeverRaises ==
    /\ rv_pc # "raised"
    /\ rs_pc # "raised"
    /\ rv_pc = "done" =>
          /\ rv_result.success \in BOOLEAN
          /\ ~rv_result.success => rv_result.error \notin {"pending", ""}
    /\ rs_pc = "done" =>
          /\ rs_result.success \in BOOLEAN
          /\ ~rs_result.success => rs_result.error \notin {"pending", ""}

\* C21 witness: the copy process could not be spawned and the stream
\* recorder returned the failure.
C21_Witness ==
    /\ rs_pc = "done"
    /\ copies # <<>>
    /\ copies[Len(copies)].outcome = "exception"
    /\ rs_result = StreamFailure("exception")

\* C23: a result with success=true reports a size greater than 0, from the
\* snapshot path and from the stream path over TCP or UDP.
C23_SuccessHasSize ==
    /\ (rv_pc = "done" /\ rv_result.success) => rv_result.size > 0
    /\ (rs_pc = "done" /\ rs_result.success) => rs_result.size > 0

\* C24: the frames in the temporary directory are numbered 0..k-1 for the k
\* successful captures so far, and no index is captured twice.
C24_ContiguousFrameNumbers ==
    /\ temp_dir_exists => temp_files = 0..(successful_frames - 1)
    /\ \A j, k \in DOMAIN captures : captures[j] = captures[k] => j = k

\* C25: with a template whose placeholder cannot be resolved the overlay is
\* the one line "OSD TEST" on every frame drawn, the job is not ended by the
\* template, and it returns success=true when the transcoder exited 0.
C25_BadTemplateFallsBack ==
    (rv_pc # "idle" /\ add_osd /\ osd_template = "bad") =>
        /\ osd_lines = <<"OSD TEST">>
        /\ \A k \in DOMAIN overlays : overlays[k].lines = <<"OSD TEST">>
        /\ (rv_pc = "done" /\ ffmpeg_runs = <<0>>) => rv_result.success
        /\ (rv_pc = "done" /\ ~rv_result.success) =>
              rv_result.error \in {"No frames captured successfully",
                                   "ffmpeg not found", "No frames available",
                                   "FFmpeg failed"}

\* C25 witness: a job with the unresolvable template drew the fixed line on
\* two frames and returned success.
C25_Witness ==
    /\ rv_pc = "done"
    /\ add_osd /\ osd_template = "bad"
    /\ Len(overlays) >= 2
    /\ rv_result.success

\* C26: the text drawn on a frame is the one resolved from the telemetry
\* and clock current when that frame was captured.
C26_OverlayResolvedPerFrame ==
    \A k \in DOMAIN overlays :
        osd_template = "ok" => overlays[k].lines = <<overlays[k].at>>

\* C30: in the primary mechanism the k-th wait is 10 * k seconds and follows
\* the k-th failed attempt, whether that attempt was refused, timed out or
\* raised; every failed attempt but the last one allowed is followed by its
\* wait, and the last one allowed is followed by none.
C30_BackoffGrowsByTen ==
    d_pc # "idle" =>
        /\ \A k \in DOMAIN waits : waits[k] = 10 * k
        /\ Len(waits) = IF attempt > 0 /\ attempt = max_retries
                            THEN attempt - 1
                            ELSE attempt

\* C30 witness: three attempts of three failed, one refused, one timed out
\* and one with an exception; 10 and 20 seconds were waited, nothing after
\* the third.
C30_Witness ==
    /\ d_pc = "done"
    /\ st_pc = "idle"
    /\ max_retries = 3
    /\ attempt = 3
    /\ waits = <<10, 20>>
    /\ {calls[k][2] : k \in DOMAIN calls} = {"error", "timeout", "exception"}

\* C28: when the scheduled stop of a timed recording fires while stop() is
\* called by hand, the stop request reaches the camera at most once for that
\* recording: never both from its scheduled stop and from a manual stop
\* called once the stop was scheduled.
\* Cancelling the handle of a scheduled stop that has ended changes nothing.
C28_StopIssuedOnce ==
    /\ ~ ( /\ cam_stop.after # NoTask
           /\ cam_stop.rec # NoTask
           /\ \E t, m \in {cam_stop.by, cam_stop.after} :
                  /\ tasks[t].kind = "timer"
                  /\ tasks[t].origin = cam_stop.rec
                  /\ tasks[m].kind = "stop"
                  /\ m > t )
    /\ \A t \in DOMAIN tasks, by \in DOMAIN tasks :
          ~InFlight(tasks, t) => RequestCancel(tasks, t, by) = tasks

\* C22: in record_and_send_to_telegram the delivery is attempted exactly
\* when the recording succeeded; the success field is the recorder's and no
\* step of the delivery changes it; the outcome of the delivery is in the
\* field telegram_sent, which is present exactly in the results of
\* recordings that succeeded.
C22_DeliveryIffRecorded ==
    [][ /\ (ras_pc = "recording" /\ ras_pc' \in {"sending", "returned"}) =>
              /\ ras_result'.success = RecorderResult.success
              /\ (ras_pc' = "sending") <=> RecorderResult.success
        /\ (st_pc = "idle" /\ st_pc' # "idle") =>
              ras_pc = "sending" /\ ras_result.success
        /\ ras_pc \in {"sending", "returned"} =>
              ras_result'.success = ras_result.success
        /\ ras_pc' \in {"returned", "done"} =>
              /\ (ras_result'.telegram_sent # "absent") <=> ras_result'.success
              /\ ras_result'.telegram_sent \in {"absent", "true", "false"}
      ]_vars

\* C22 witness: the recording succeeded, every delivery mechanism was tried
\* and failed; the result says success with telegram_sent false.
C22_Witness ==
    /\ ras_pc = "done"
    /\ ras_result = [success |-> TRUE, telegram_sent |-> "false"]
    /\ ras_notification = "saved_not_sent"
    /\ Len(calls) >= 2

\* C29: _capture_snapshot tries its candidate URLs in their fixed order and
\* stops at the first response it accepts; the response it stores came from
\* a candidate URL with status 200, an image content type and a body above
\* the size threshold; when no candidate gave such a response it fails and
\* stores no frame.
C29_FirstAcceptableCandidate ==
    cs_pc = "done" =>
        LET urls == {k \in DOMAIN cs_tried : cs_tried[k][1] = "url"}
        IN  /\ \A k \in urls : cs_tried[k][2] = snapshot_urls[k]
            /\ \A k \in urls : cs_tried[k][3] => k = Len(cs_tried)
            /\ cs_result = "true" =>
                  /\ cs_stored.from = "url"
                  /\ UrlAccepts(cs_stored.response)
            /\ (\A k \in urls : ~cs_tried[k][3]) =>
                  /\ cs_result = "raised"
                  /\ cs_stored = NothingStored

\* C27: whichever entry points started them (timed recording, record and
\* deliver, record with OSD), the running snapshot jobs of a camera hold at
\* most one temporary frame directory between them, and no two running jobs
\* hold the same one.
C27_OneLiveTempDir ==
    /\ Cardinality({tj_jobs[j].dir : j \in LiveJobs}) <= 1
    /\ \A j, k \in LiveJobs : tj_jobs[j].dir = tj_jobs[k].dir => j = k

\* C31: the transcoder is run at most once per record_video call; when it
\* exits nonzero or is not installed the call returns success=false with an
\* error and the transcoder is not run again.
C31_TranscoderRunsOnce ==
    /\ Len(ffmpeg_runs) <= 1
    /\ (ffmpeg_runs = <<1>>) =>
          /\ rv_pc = "done"
          /\ ~rv_result.success
          /\ rv_result.error = "FFmpeg failed"
    /\ (rv_pc = "done" /\ rv_result.error = "ffmpeg not found") =>
          /\ ~rv_result.success
          /\ ffmpeg_runs = <<>>
    /\ (rv_pc = "done" /\ rv_result.success) => ffmpeg_runs = <<0>>

\* C31 witness: one still was stored, the transcoder ran once and exited
\* nonzero, the call has returned its failure.
C31_Witness ==
    /\ rv_pc = "done"
    /\ successful_frames = 1
    /\ ffmpeg_runs = <<1>>
    /\ rv_result.error = "FFmpeg failed"

\* C32: the frame count of a successful result is the number of stills
\* stored by the captures that succeeded; it is at least 1 and at most the
\* requested count, and it is the requested count when every capture
\* succeeded.
C32_FrameCountReported ==
    [][ (rv_pc = "assemble" /\ rv_pc' = "done" /\ rv_result'.success) =>
            /\ rv_result'.frames = Cardinality(temp_files)
            /\ rv_result'.frames >= 1
            /\ rv_result'.frames <= FrameCount(duration, snapshot_interval)
            /\ (Cardinality(temp_files) = Len(captures)) =>
                  rv_result'.frames = FrameCount(duration, snapshot_interval)
      ]_vars

\* C32 witness: the scenario at a third of its scale: duration 6, interval 2,
\* three captures, all succeeded, and the result reports three frames.
C32_Witness ==
    /\ rv_pc = "done"
    /\ duration = 6
    /\ snapshot_interval = 2
    /\ Len(captures) = 3
    /\ successful_frames = 3
    /\ rv_result.success
    /\ rv_result.frames = 3

\* C33: every successful stream result describes the copy that succeeded:
\* its method names the transport of that copy, and it carries an audio
\* flag that says whether that copy took the audio; so false after the
\* re-run without audio, and a flag next to the UDP method after the retry
\* over UDP.
C33_ResultDescribesCopy ==
    (rs_pc = "done" /\ rs_result.success) =>
        LET last == copies[Len(copies)]
        IN  /\ last.outcome = "ok"
            /\ rs_result.method =
                  (IF last.transport = "udp" THEN "rtsp_udp" ELSE "rtsp")
            /\ rs_result.audio # "absent"
            /\ rs_result.audio = (IF last.audio THEN "true" ELSE "false")

\* C35: the values _get_osd_values returns for a job on a camera are read
\* from that camera's own telemetry: with several cameras registered, never
\* from another camera's, and from its own whenever it has any.
C35_OwnTelemetryOnly ==
    ov_pc = "done" =>
        /\ ov_values.telemetry_of # "other"
        /\ (\E k \in DOMAIN ov_registry :
               ov_registry[k].id = "own" /\ ov_registry[k].data)
           => ov_values.telemetry_of = "own"

\* C34: the font of the overlay is the first file whose name matches the
\* configured name; when none matches or none is configured, the present
\* font that comes first in the ranked list; when none of the list is
\* present, the first file of the folder; with no file at all no font is
\* chosen and the overlay is skipped.  In every case the call returns
\* without raising, so the capture it belongs to goes on.
C34_FontResolutionOrder ==
    ft_pc = "done" =>
        LET present == Range(ft_files)
            named == IF ft_name = "default" THEN {}
                     ELSE {f \in present : NameMatches(ft_name, f)}
            ranked == {k \in DOMAIN preferred_fonts :
                          preferred_fonts[k] \in present}
        IN  /\ ft_outcome \in {"drawn", "skipped"}
            /\ IF named # {}
                  THEN /\ ft_rule = "name"
                       /\ ft_font \in named
                       /\ \A k \in DOMAIN ft_files :
                             ft_files[k] \in named =>
                               \E j \in 1..k : ft_files[j] = ft_font
               ELSE IF ranked # {}
                  THEN /\ ft_rule = "rank"
                       /\ \E k \in ranked :
                             /\ ft_font = preferred_fonts[k]
                             /\ \A j \in ranked : k <= j
               ELSE IF present # {}
                  THEN ft_rule = "first" /\ ft_font = ft_files[1]
               ELSE /\ ft_font = "None"
                    /\ ft_rule = "none"
                    /\ ft_outcome = "skipped"

\* C34 witness: the configured name matches no file, Arial and DejaVuSans
\* are both present, and the overlay was drawn with DejaVuSans, the higher
\* of the two in the ranked list.
C34_Witness ==
    /\ ft_pc = "done"
    /\ ft_name = "helvetica"
    /\ ft_files = <<"Arial.ttf", "DejaVuSans.ttf", "Zeta.ttf">>
    /\ ft_font = "DejaVuSans.ttf"
    /\ ft_rule = "rank"
    /\ ft_outcome = "drawn"

\* C39: a capture for a camera only ever asks that camera's own host, and
\* the frame it stores comes from that host: whatever other cameras are
\* registered and whatever they answer, no other host is queried and
\* nothing of theirs is stored, so the outcome does not depend on them.
C39_OwnHostOnly ==
    /\ \A k \in DOMAIN cs_tried :
          cs_tried[k][1] = "coordinator" => cs_tried[k][2] = "own"
    /\ cs_stored.from = "coordinator" => cs_stored.at = "own"

\* C36: once the scheduled stop of a timed camera-side recording has fired
\* (its sleep ended uncancelled and it entered async_stop_recording, which
\* cancels the handle that is this very task), a stop request of it
\* eventually goes out to the camera.
C36_FiredTimerSendsStop ==
    \A t \in 1..MaxTasks :
        (t \in DOMAIN tasks /\ tasks[t].kind = "timer"
                            /\ tasks[t].pc = "stop_send")
        ~> (t \in DOMAIN tasks /\ tasks[t].sent)

\* C36 witness: a scheduled stop has fired, has gone through the loop over the
\* stop endpoints, has reached the camera with a stop request for the
\* recording its own timed start began, and has returned true.
C36_Witness ==
    \E t \in DOMAIN tasks :
        /\ tasks[t].kind = "timer"
        /\ tasks[t].pc = "done"
        /\ tasks[t].ret = "true"
        /\ tasks[t].sent
        /\ cam_stop.by = t
        /\ cam_stop.began_by = tasks[t].origin

\* C37: the locally derived status says recording only while an artifact task
\* or a timed camera-side recording of the camera is in flight (so it says
\* not recording once the job has ended or the stop has returned); and the
\* remaining time it reports is positive and no more than a requested
\* duration.
C37_LocalStatusFollowsWork ==
    LET status == async_get_recording_status(FALSE)
        artifact == \E t \in DOMAIN tasks :
                        tasks[t].kind = "ha" /\ InFlight(tasks, t)
        camera_side == \/ cam_recording
                       \/ \E t \in DOMAIN tasks :
                            /\ tasks[t].kind \in {"timed", "timer"}
                            /\ InFlight(tasks, t)
    IN  status.recording =>
            /\ artifact \/ camera_side
            /\ status.remaining > 0
            /\ status.remaining <= MaxRecDuration

\* C38: every scheduled stop that is pending (stop_after_delay in its sleep)
\* is the task the orchestrator's handle _recording_task refers to, so at
\* most one is pending and async_stop_recording can cancel it.
C38_OnePendingTimerHeld ==
    \A t \in DOMAIN tasks :
        (tasks[t].kind = "timer" /\ tasks[t].pc = "sleep") =>
            _recording_task = t

=============================================================================
